---- MODULE Spec2Model ----
(***************************************************************************)
(* The asset reconciliation engine of gda: the resolve, pull and push      *)
(* commands, SyncService (verify_asset, pull_asset, pull_all,              *)
(* _prune_directory), the lockfile on disk, the destination and source     *)
(* directories, the download cache, the build directory and the remote     *)
(* release store the commands talk to.  Spec is the consumer side (resolve *)
(* and pull), PushSpec the publisher side (push).  TraversalSpec is pull   *)
(* on a lock with an asset name that leaves the cache directory,           *)
(* NoManifestSpec the three commands without a manifest, CodecSpec the     *)
(* load and save of gda.lock and gda.yml, ArchiveSpec create_zip and       *)
(* extract_zip file by file, ItemSpec the ItemStorage of typ_tmpl,         *)
(* RepeatSpec a pull run again, PublishSpec push into an empty release     *)
(* followed by resolve, PruneSpec _prune_directory on its own and          *)
(* InterleavedSpec two pull_asset calls whose filesystem accesses          *)
(* interleave.                                                             *)
(*                                                                         *)
(* One command runs at a time (the program is single-threaded); pc is its  *)
(* position.  Between commands the user edits the manifest or the          *)
(* destination directories and the release's assets may be replaced.       *)
(***************************************************************************)
EXTENDS Integers, Sequences, FiniteSets, TLC

\* Number of commands / API calls started in one behaviour.
MaxOps == 2
\* Number of edits made by the user or the remote store between commands.
MaxEnv == 1

----------------------------------------------------------------------------
(* Relative paths: sequences of one-letter components, "d/y" is <<"d","y">> *)

\* in the order of str < str; "U" stands for a name of letters that code
\* page 437 has above 0x7f, such as "\u00fc\u00e9", and "N" for the name
\* its bytes in code page 437 spell in code page 932, "\u2260"
Alphabet == <<"d", "e", "x", "y", "z", "U", "N">>

CharRank(c) == CHOOSE i \in 1..Len(Alphabet) : Alphabet[i] = c

PX == <<"x">>
PY == <<"d", "y">>
PZ == <<"d", "e", "z">>
PU == <<"U">>
PN == <<"N">>

AllPaths == {PX, PY, PZ}

\* str < str of Python on the "/"-joined paths: with one-letter components
\* the first difference is at a component, and a proper prefix is smaller.
RECURSIVE PathLess(_, _)
PathLess(p, q) ==
    IF p = <<>> THEN q # <<>>
    ELSE IF q = <<>> THEN FALSE
    ELSE IF Head(p) # Head(q) THEN CharRank(Head(p)) < CharRank(Head(q))
    ELSE PathLess(Tail(p), Tail(q))

\* sorted(S) for a set of paths
RECURSIVE SortPaths(_)
SortPaths(S) ==
    IF S = {} THEN <<>>
    ELSE LET m == CHOOSE p \in S : \A q \in S \ {p} : PathLess(p, q)
         IN <<m>> \o SortPaths(S \ {m})

Range(s) == {s[i] : i \in 1..Len(s)}

\* the directories above a relative path, below the root
Ancestors(p) == {SubSeq(p, 1, k) : k \in 1..(Len(p) - 1)}

----------------------------------------------------------------------------
(* Byte strings that travel between the store, the cache and the codec      *)

ZEntry(p, c) == [name |-> p, data |-> c]

\* archives as they are stored: the entries in the order of the file
Z1 == [kind |-> "zip", entries |-> <<ZEntry(PX, 1)>>]
Z2 == [kind |-> "zip", entries |-> <<ZEntry(PX, 2), ZEntry(PY, 1)>>]
\* bytes that are no archive
ZJunk == [kind |-> "junk"]
\* the head of a download that broke off
ZPartial == [kind |-> "partial"]

RemoteBlobs == {Z1, Z2, ZJunk}

\* the files of Z2 as create_zip packs them, in sorted order
Z3 == [kind |-> "zip", entries |-> <<ZEntry(PY, 1), ZEntry(PX, 2)>>]

\* the archive create_zip makes of a directory without files
Z0 == [kind |-> "zip", entries |-> <<>>]

AllBlobs == <<Z1, Z2, ZJunk, ZPartial, Z3, Z0>>

DigestNames == <<"h1", "h2", "h3", "h4", "h5", "h6">>

\* hashlib.sha256 over the bytes: one digest for each byte string
ComputeHash(b) ==
    DigestNames[CHOOSE i \in 1..Len(AllBlobs) : AllBlobs[i] = b]

----------------------------------------------------------------------------
(* Directories                                                              *)

NoFiles == [p \in {} |-> 0]

AbsentDir == [exists |-> FALSE, files |-> NoFiles, dirs |-> {}]

EmptyDir == [exists |-> TRUE, files |-> NoFiles, dirs |-> {}]

\* Path.exists() of dest_dir / p
PathExists(d, p) == d.exists /\ (p \in DOMAIN d.files \/ p \in d.dirs)

\* open(target, "wb").write(data) after target.parent.mkdir(parents=True)
WriteFile(d, p, c) ==
    [exists |-> TRUE,
     files  |-> [q \in DOMAIN d.files \cup {p} |->
                    IF q = p THEN c ELSE d.files[q]],
     dirs   |-> d.dirs \cup Ancestors(p)]

\* Path.unlink() of one regular file
UnlinkFile(d, p) ==
    [d EXCEPT !.files = [q \in DOMAIN d.files \ {p} |-> d.files[q]]]

\* shutil.rmtree(dest_dir) when it exists
RemoveTree(d) == AbsentDir

\* dest_dir.mkdir(parents=True, exist_ok=True)
MakeDir(d) == IF d.exists THEN d ELSE EmptyDir

\* entries of a directory: the files and directories directly in it
IsEmptyDir(d, q) ==
    /\ \A p \in DOMAIN d.files : SubSeq(p, 1, Len(p) - 1) # q
    /\ \A r \in d.dirs : SubSeq(r, 1, Len(r) - 1) # q

\* sorted(list) by insertion, duplicates kept
RECURSIVE InsertSorted(_, _)
InsertSorted(p, s) ==
    IF s = <<>> THEN <<p>>
    ELSE IF PathLess(Head(s), p) THEN <<Head(s)>> \o InsertSorted(p, Tail(s))
    ELSE <<p>> \o s

RECURSIVE Sorted(_)
Sorted(s) == IF s = <<>> THEN <<>> ELSE InsertSorted(Head(s), Sorted(Tail(s)))

Reverse(s) == [i \in 1..Len(s) |-> s[Len(s) + 1 - i]]

----------------------------------------------------------------------------
(* ArchiveService                                                           *)

\* zipfile.ZipFile(zip_path, "r") opens it
IsZip(b) == b.kind = "zip"

\* lines 121-127: info.filename.encode("cp437").decode("utf-8"), on failure
\* .decode("cp932"), on failure the name as stored.  ASCII is the same in
\* the three codings; a name that code page 437 cannot encode stays.
DecodeName(p) == [i \in 1..Len(p) |-> IF p[i] = "U" THEN "N" ELSE p[i]]

\* the loop of extract_zip over zf.infolist(): every entry written in turn
RECURSIVE WriteEntries(_, _)
WriteEntries(es, d) ==
    IF es = <<>> THEN d
    ELSE WriteEntries(Tail(es),
                      WriteFile(d, DecodeName(Head(es).name), Head(es).data))

\* extract_zip on an archive: the destination afterwards
ExtractZipDir(b, d) == WriteEntries(b.entries, MakeDir(d))

\* extract_zip returning the names in the order of the archive
ExtractZipNamesUnsorted(b) ==
    [i \in 1..Len(b.entries) |-> DecodeName(b.entries[i].name)]

\* extract_zip on an archive: the value returned
ExtractZipNames(b) ==
    Sorted([i \in 1..Len(b.entries) |-> DecodeName(b.entries[i].name)])

\* list_zip_contents: the names as stored, sorted
ListZipContents(b) ==
    Sorted([i \in 1..Len(b.entries) |-> b.entries[i].name])

----------------------------------------------------------------------------
(* SyncService                                                              *)

\* the loop of verify_asset over asset.files
RECURSIVE AllListedExist(_, _)
AllListedExist(files, d) ==
    IF files = <<>> THEN TRUE
    ELSE IF ~PathExists(d, Head(files)) THEN FALSE
    ELSE AllListedExist(Tail(files), d)

\* verify_asset without the test of line 43
VerifyAssetNoEmptyCheck(asset, d) ==
    IF ~d.exists THEN FALSE
    ELSE AllListedExist(asset.files, d)

VerifyAsset(asset, d) ==
    IF asset.files = <<>> THEN FALSE
    ELSE IF ~d.exists THEN FALSE
    ELSE AllListedExist(asset.files, d)

\* pull_asset without the check of line 75
MustDownloadAlways(force, asset, d) == TRUE

\* pull_asset that returns the recorded list of a verified asset whatever
\* the force flag says
MustDownloadUnverified(force, asset, d) == ~VerifyAsset(asset, d)

\* line 75 of pull_asset: whether the call goes on to download
MustDownload(force, asset, d) == ~(~force /\ VerifyAsset(asset, d))

\* self._cache_dir.mkdir(parents=True, exist_ok=True)
MakeCacheDir(c) == [c EXCEPT !.exists = TRUE]

\* the bytes download_asset leaves at zip_path
StoreDownload(c, zip, b) ==
    [exists |-> TRUE,
     files  |-> [z \in DOMAIN c.files \cup {zip} |->
                    IF z = zip THEN b ELSE c.files[z]]]

\* zip_path.unlink()
UnlinkZip(c, zip) ==
    [c EXCEPT !.files = [z \in DOMAIN c.files \ {zip} |-> c.files[z]]]

\* the mismatch raises without unlinking the download
MismatchKeepsFile(c, zip) == c

\* line 88: what the hash mismatch does to the cache before it raises
MismatchCleanup(c, zip) == UnlinkZip(c, zip)

\* a pull_asset that unpacks over what the destination holds
CleanDestinationSkipped(d) == d

\* lines 92-93: the destination before the archive is unpacked
CleanDestination(d) == IF d.exists THEN RemoveTree(d) ELSE d

\* a finally block that unlinks the download and leaves the directory
FinallyNoRmdir(c, zip) ==
    IF zip \in DOMAIN c.files THEN UnlinkZip(c, zip) ELSE c

\* lines 98-101: the finally block of pull_asset
FinallyCleanup(c, zip) ==
    LET c1 == IF zip \in DOMAIN c.files THEN UnlinkZip(c, zip) ELSE c
    IN IF c1.exists /\ DOMAIN c1.files = {}
       THEN [c1 EXCEPT !.exists = FALSE]
       ELSE c1

\* the second loop of _prune_directory: directories in reverse sorted order,
\* each removed when it is empty at its turn
RECURSIVE RemoveEmptyDirs(_, _)
RemoveEmptyDirs(ds, d) ==
    IF ds = <<>> THEN d
    ELSE IF IsEmptyDir(d, Head(ds))
         THEN RemoveEmptyDirs(Tail(ds), [d EXCEPT !.dirs = @ \ {Head(ds)}])
         ELSE RemoveEmptyDirs(Tail(ds), d)

\* a prune whose membership test is inverted: the governed files go
PruneDirectoryInverted(d, keep) ==
    IF ~d.exists THEN d
    ELSE LET kept == [d EXCEPT !.files =
                         [p \in DOMAIN d.files \ keep |-> d.files[p]]]
         IN RemoveEmptyDirs(Reverse(SortPaths(d.dirs)), kept)

\* a walk that comes to a directory before the directories beneath it
PruneOrderAscending(dirs) == SortPaths(dirs)

\* line 155: sorted(directory.rglob("*"), reverse=True), the directories of it
PruneOrder(dirs) == Reverse(SortPaths(dirs))

\* lines 137-158: files outside keep_files are unlinked, then the empty
\* directories are removed
PruneDirectory(d, keep) ==
    IF ~d.exists THEN d
    ELSE LET kept == [d EXCEPT !.files =
                         [p \in DOMAIN d.files \cap keep |-> d.files[p]]]
         IN RemoveEmptyDirs(PruneOrder(d.dirs), kept)

----------------------------------------------------------------------------
(* Manifest, lockfile, release store                                        *)

Tags == {"v1", "v2", "v3"}

\* source is the name unless the manifest gives one
Asset(n, dst) ==
    [name |-> n, source |-> n, destination |-> dst, excludes |-> <<>>]

DestDirs == {"out_a", "out_b"}

InitialAssets == <<Asset("a", "out_a"), Asset("b", "out_b")>>

ZipName(n) == n \o ".zip"

\* browser_download_url of a release asset
Url(tag, zip) == <<"owner/repo", tag, zip>>

NoRelease == [exists |-> FALSE, assets |-> [z \in {} |-> ZJunk]]

Release(f) == [exists |-> TRUE, assets |-> f]

InitialRemote ==
    [t \in Tags |->
        IF t = "v1" THEN Release([z \in {"a.zip", "b.zip"} |->
                                     IF z = "a.zip" THEN Z1 ELSE Z2])
        ELSE IF t = "v2" THEN Release([z \in {"a.zip"} |-> Z2])
        ELSE NoRelease]

NoLockfile == [exists |-> FALSE, version |-> "", assets |-> <<>>]

LockedAsset(n, u, h, fs) == [name |-> n, url |-> u, sha256 |-> h, files |-> fs]

\* Lockfile.save: the JSON object written to gda.lock; the asset's name is
\* the key of its entry, not a field of it
LockSave(l) ==
    [exists  |-> TRUE,
     version |-> l.version,
     assets  |-> [i \in 1..Len(l.assets) |->
                    [key    |-> l.assets[i].name,
                     url    |-> l.assets[i].url,
                     sha256 |-> l.assets[i].sha256,
                     files  |-> l.assets[i].files]]]

\* Lockfile.load of an existing, well-formed gda.lock
LockLoad(f) ==
    [version |-> f.version,
     assets  |-> [i \in 1..Len(f.assets) |->
                    LockedAsset(f.assets[i].key, f.assets[i].url,
                                f.assets[i].sha256, f.assets[i].files)]]

NoLock == [version |-> "", assets |-> <<>>]

\* a lookup that falls back on a directory for a name the manifest lacks
DestinationsOfDefault(m, n) ==
    LET S == {m.assets[i].destination :
                 i \in {j \in 1..Len(m.assets) : m.assets[j].name = n}}
    IN IF S = {} THEN {CHOOSE d \in DestDirs : TRUE} ELSE S

\* a lookup that hands out the first destination whatever the name
DestinationsOfFirst(m, n) ==
    IF m.assets = <<>> THEN {} ELSE {m.assets[1].destination}

\* destinations.get(name): the set holding the destination, empty for None
DestinationsOf(m, n) ==
    {m.assets[i].destination : i \in {j \in 1..Len(m.assets) : m.assets[j].name = n}}

----------------------------------------------------------------------------
VARIABLES
    manifest,   \* gda.yml: [version, assets]
    lockfile,   \* gda.lock on disk
    dest,       \* the destination directories, by name
    cache,      \* .gda/cache: [exists, files: zip name -> bytes]
    remote,     \* the release store: tag -> release
    pc,         \* position of the running command, "idle" between commands
    cmd,        \* the command or API call that runs: [name, force, prune]
    ret,        \* where _resolve_impl returns to
    release,    \* _resolve_impl: the release found
    locked,     \* _resolve_impl: locked_assets built so far
    ridx,       \* _resolve_impl: position in manifest.assets
    lock,       \* _pull_impl: the Lockfile object in memory
    idx,        \* _pull_impl: position in lockfile.assets
    updated,    \* _pull_impl: lockfile_updated
    cur,        \* pull_asset: [asset, dir], its arguments
    result,     \* value returned by the last call
    error,      \* exception that ended the command, [kind |-> "none"] if none
    log,        \* what the running command did so far, in order
    pre,        \* the disk as the running command found it
    ops,        \* commands started
    env,        \* edits made between commands
    results,    \* pull_all: asset name -> extracted files
    source,     \* the source directories of the working tree, by name
    build,      \* .gda/build: [exists, files: zip name -> bytes]
    archives,   \* _push_impl: the archives packed, in manifest order
    existing,   \* _push_impl: names of the assets the release holds
    file,       \* the file a load is called on, as text
    items       \* ItemStorage: the files of base_dir, name -> content

world == <<manifest, lockfile, dest, cache, remote>>
resolveLocals == <<ret, release, locked, ridx>>
pullLocals == <<lock, idx, updated>>
pushLocals == <<archives, existing>>
pushState == <<source, build, archives, existing>>
unitState == <<file, items>>
vars == <<manifest, lockfile, dest, cache, remote, pc, cmd, ret, release,
          locked, ridx, lock, idx, updated, cur, result, error, log, pre,
          ops, env, results, source, build, archives, existing, file, items>>

NoError == [kind |-> "none"]

NoCmd == [name |-> "none", force |-> FALSE, prune |-> FALSE]

NoCur == [asset |-> LockedAsset("", <<>>, "", <<>>), dir |-> ""]

Ev(e, n) == [ev |-> e, name |-> n]

Snapshot ==
    [lockfile |-> lockfile, dest |-> dest, cache |-> cache,
     remote |-> remote, build |-> build]

\* no file at the path
NoFile == [kind |-> "absent"]

\* an empty base_dir
NoItems == [n \in {} |-> ""]

\* no gda.yml at the manifest path
NoManifest == [exists |-> FALSE, version |-> "", assets |-> <<>>]

\* the empty dict
NoResults == [n \in {} |-> <<>>]

SourceDirs == {"a", "raw"}

NoBuild == [exists |-> FALSE, files |-> [z \in {} |-> ZJunk]]

Init ==
    /\ manifest \in {[exists |-> TRUE, version |-> t, assets |-> InitialAssets] : t \in Tags}
    /\ lockfile = NoLockfile
    /\ dest = [d \in DestDirs |-> AbsentDir]
    /\ cache = [exists |-> FALSE, files |-> [z \in {} |-> ZJunk]]
    /\ remote = InitialRemote
    /\ pc = "idle"
    /\ cmd = NoCmd
    /\ ret = "done"
    /\ release = NoRelease
    /\ locked = <<>>
    /\ ridx = 1
    /\ lock = NoLock
    /\ idx = 1
    /\ updated = FALSE
    /\ cur = NoCur
    /\ result = <<>>
    /\ error = NoError
    /\ log = <<>>
    /\ results = NoResults
    /\ source = [d \in SourceDirs |-> AbsentDir]
    /\ build = NoBuild
    /\ archives = <<>>
    /\ existing = {}
    /\ file = NoFile
    /\ items = NoItems
    /\ pre = Snapshot
    /\ ops = 0
    /\ env = 0

----------------------------------------------------------------------------
(* Between commands: the user and the store                                 *)

Idle == pc \in {"idle", "done", "failed"}

\* an edit ends what was known of the last command
EnvFrame ==
    /\ env < MaxEnv
    /\ Idle
    /\ env' = env + 1
    /\ pc' = "idle"
    /\ cmd' = NoCmd
    /\ ret' = "done"
    /\ release' = NoRelease
    /\ locked' = <<>>
    /\ ridx' = 1
    /\ lock' = NoLock
    /\ idx' = 1
    /\ updated' = FALSE
    /\ cur' = NoCur
    /\ result' = <<>>
    /\ error' = NoError
    /\ log' = <<>>
    /\ results' = NoResults
    /\ archives' = <<>>
    /\ existing' = {}
    /\ pre' = [lockfile |-> lockfile', dest |-> dest', cache |-> cache',
               remote |-> remote', build |-> build']
    /\ UNCHANGED <<ops, file, items>>

\* the user changes `version:` in gda.yml
EditVersion ==
    /\ \E t \in Tags \ {manifest.version} :
          manifest' = [manifest EXCEPT !.version = t]
    /\ UNCHANGED <<lockfile, dest, cache, remote, source, build>>
    /\ EnvFrame

\* the user deletes an asset from gda.yml
DropAsset ==
    /\ \E i \in 1..Len(manifest.assets) :
          manifest' = [manifest EXCEPT !.assets =
                          SubSeq(manifest.assets, 1, i - 1)
                          \o SubSeq(manifest.assets, i + 1, Len(manifest.assets))]
    /\ UNCHANGED <<lockfile, dest, cache, remote, source, build>>
    /\ EnvFrame

\* a release asset is uploaded again with other bytes, under the same URL
RemoteReplace ==
    /\ \E t \in Tags, b \in RemoteBlobs :
          /\ remote[t].exists
          /\ \E z \in DOMAIN remote[t].assets :
                /\ remote[t].assets[z] # b
                /\ remote' = [remote EXCEPT ![t].assets[z] = b]
    /\ UNCHANGED <<manifest, lockfile, dest, cache, source, build>>
    /\ EnvFrame

\* the user puts a file into a destination directory, making the
\* directories above it
UserAddFile ==
    /\ \E d \in DestDirs, p \in AllPaths :
          dest' = [dest EXCEPT ![d] = WriteFile(dest[d], p, 9)]
    /\ UNCHANGED <<manifest, lockfile, cache, remote, source, build>>
    /\ EnvFrame

\* the user deletes a file from a destination directory
UserRemoveFile ==
    /\ \E d \in DestDirs :
          \E p \in DOMAIN dest[d].files :
              dest' = [dest EXCEPT ![d] = UnlinkFile(dest[d], p)]
    /\ UNCHANGED <<manifest, lockfile, cache, remote, source, build>>
    /\ EnvFrame

----------------------------------------------------------------------------
(* Starting and ending a command                                            *)

\* a command or API call starts with fresh locals
StartFrame(c, p, l, k, r) ==
    /\ Idle
    /\ ops < MaxOps
    /\ ops' = ops + 1
    /\ cmd' = c
    /\ pc' = p
    /\ lock' = l
    /\ cur' = k
    /\ ret' = r
    /\ release' = NoRelease
    /\ locked' = <<>>
    /\ ridx' = 1
    /\ idx' = 1
    /\ updated' = FALSE
    /\ error' = NoError
    /\ results' = NoResults
    /\ archives' = <<>>
    /\ existing' = {}
    /\ pre' = Snapshot
    /\ UNCHANGED <<world, env, source, build, file, items>>

\* an exception leaves the command
Raise(e) ==
    /\ pc' = "failed"
    /\ error' = e

GitHubAPIError(where) == [kind |-> "GitHubAPIError", where |-> where]

ReleaseNotFoundError(tag) == [kind |-> "ReleaseNotFoundError", version |-> tag]

HashMismatchError(n, expected, actual) ==
    [kind |-> "HashMismatchError", asset_name |-> n,
     expected |-> expected, actual |-> actual]

\* httpx raises while the body is streamed
TransportError == [kind |-> "TransportError"]

BadZipFile == [kind |-> "BadZipFile"]

----------------------------------------------------------------------------
(* gda resolve                                                              *)

\* a resolve that hashes the first asset of the release for every entry
ResolvedAssetFirstHash(n, tag, rel) ==
    LockedAsset(n, Url(tag, ZipName(n)),
                ComputeHash(rel.assets[CHOOSE z \in DOMAIN rel.assets : TRUE]),
                <<>>)

\* a resolve that carries the file list of the previous lock entry over
ResolvedAssetKeepFiles(n, tag, rel) ==
    LET old == {i \in 1..Len(lockfile.assets) : lockfile.assets[i].key = n}
    IN LockedAsset(n, Url(tag, ZipName(n)),
                   ComputeHash(rel.assets[ZipName(n)]),
                   IF old = {} THEN <<>>
                   ELSE lockfile.assets[CHOOSE i \in old : TRUE].files)

\* release_assets[zip_name] fetched and hashed: the LockedAsset of line 74
ResolvedAsset(n, tag, rel) ==
    LockedAsset(n, Url(tag, ZipName(n)),
                ComputeHash(rel.assets[ZipName(n)]), <<>>)

\* a resolve that updates the lock it finds: the file lists of the names
\* it already holds stay
ResolvedLockKeepsOld(m, assets) ==
    [version |-> m.version,
     assets  |-> [i \in 1..Len(assets) |->
                    LET old == {k \in 1..Len(lockfile.assets) :
                                   lockfile.assets[k].key = assets[i].name}
                    IN IF old = {} THEN assets[i]
                       ELSE [assets[i] EXCEPT !.files =
                               lockfile.assets[CHOOSE k \in old : TRUE].files]]]

\* a resolve that merges into the lock it finds: the entries of the names
\* it did not build stay
ResolvedLockMerged(m, assets) ==
    LET Built(a) == \E i \in 1..Len(assets) : assets[i].name = a.name
        Stays(a) == ~Built(a)
    IN [version |-> m.version,
        assets  |-> assets \o SelectSeq(LockLoad(lockfile).assets, Stays)]

\* the Lockfile of line 82
ResolvedLock(m, assets) == [version |-> m.version, assets |-> assets]

\* a resolve that saves the lock after every asset
LockSavedInLoop(f, m, assets) == LockSave(ResolvedLock(m, assets))

\* gda.lock while _resolve_impl is in its loop: nothing is saved there
LockDuringResolve(f, m, assets) == f

StartResolve ==
    /\ manifest.exists
    /\ StartFrame([name |-> "resolve", force |-> FALSE, prune |-> FALSE],
                  "rs_get_release", NoLock, NoCur, "done")
    /\ log' = <<Ev("resolve", "command")>>
    /\ result' = <<>>

\* client.get_release(manifest.repository, manifest.version)
ResolveGetRelease ==
    /\ pc = "rs_get_release"
    /\ \/ /\ remote[manifest.version].exists
          /\ release' = remote[manifest.version]
          /\ locked' = <<>>
          /\ ridx' = 1
          /\ pc' = "rs_loop"
          /\ log' = Append(log, Ev("get_release", manifest.version))
          /\ UNCHANGED error
       \/ /\ ~remote[manifest.version].exists
          /\ Raise(ReleaseNotFoundError(manifest.version))
          /\ log' = Append(log, Ev("resolve_failed", "get_release"))
          /\ UNCHANGED <<release, locked, ridx>>
       \/ /\ Raise(GitHubAPIError("get_release"))
          /\ log' = Append(log, Ev("resolve_failed", "get_release"))
          /\ UNCHANGED <<release, locked, ridx>>
    /\ UNCHANGED <<world, cmd, ret, pullLocals, cur, result, pre, ops, env,
                   results, pushState, unitState>>

\* one turn of the loop over manifest.assets
ResolveAsset ==
    /\ pc = "rs_loop"
    /\ ridx <= Len(manifest.assets)
    /\ LET n == manifest.assets[ridx].name IN
       \/ /\ ZipName(n) \notin DOMAIN release.assets
          /\ ridx' = ridx + 1
          /\ log' = Append(log, Ev("not_in_release", n))
          /\ lockfile' = lockfile
          /\ UNCHANGED <<pc, error, locked>>
       \/ /\ ZipName(n) \in DOMAIN release.assets
          /\ \/ /\ locked' = Append(locked,
                                    ResolvedAsset(n, manifest.version, release))
                /\ ridx' = ridx + 1
                /\ log' = Append(log, Ev("get_asset_hash", n))
                /\ lockfile' = LockDuringResolve(lockfile, manifest, locked')
                /\ UNCHANGED <<pc, error>>
             \/ /\ Raise(GitHubAPIError("get_asset_hash"))
                /\ log' = Append(log, Ev("resolve_failed", n))
                /\ lockfile' = lockfile
                /\ UNCHANGED <<ridx, locked>>
    /\ UNCHANGED <<manifest, dest, cache, remote, cmd, ret, release,
                   pullLocals, cur, result, pre, ops, env,
                   results, pushState, unitState>>

\* lockfile.save(lockfile_path), then the return to the caller
ResolveSave ==
    /\ pc = "rs_loop"
    /\ ridx > Len(manifest.assets)
    /\ lockfile' = LockSave(ResolvedLock(manifest, locked))
    /\ log' = Append(log, Ev("lock_written", "resolve"))
    /\ pc' = ret
    /\ UNCHANGED <<manifest, dest, cache, remote, cmd, resolveLocals,
                   pullLocals, cur, result, error, pre, ops, env,
                   results, pushState, unitState>>

----------------------------------------------------------------------------
(* SyncService.verify_asset and pull_asset, called on an entry of gda.lock  *)

CmdLocked(i) == LockLoad(lockfile).assets[i]

Callable(i) ==
    /\ lockfile.exists
    /\ i \in 1..Len(lockfile.assets)
    /\ DestinationsOf(manifest, lockfile.assets[i].key) # {}

CmdDir(i) == CHOOSE d \in DestinationsOf(manifest, lockfile.assets[i].key) : TRUE

CallVerifyAsset ==
    \E i \in 1..Len(lockfile.assets) :
        /\ Callable(i)
        /\ StartFrame([name |-> "verify_asset", force |-> FALSE, prune |-> FALSE],
                      "done", NoLock, [asset |-> CmdLocked(i), dir |-> CmdDir(i)],
                      "done")
        /\ log' = <<Ev("verify", lockfile.assets[i].key)>>
        /\ result' = VerifyAsset(CmdLocked(i), dest[CmdDir(i)])

StartPullAsset ==
    \E i \in 1..Len(lockfile.assets), f \in BOOLEAN :
        /\ Callable(i)
        /\ StartFrame([name |-> "pull_asset", force |-> f, prune |-> FALSE],
                      "pa_start", NoLock,
                      [asset |-> CmdLocked(i), dir |-> CmdDir(i)], "done")
        /\ log' = <<>>
        /\ result' = <<>>

\* where pull_asset returns to
PullAssetReturn ==
    IF cmd.name = "pull" THEN "pl_after"
    ELSE IF cmd.name = "pull_all" THEN "al_after"
    ELSE "done"

CurZip == ZipName(cur.asset.name)

\* the bytes the store serves at a URL
RemoteBytes(url) == remote[url[2]].assets[url[3]]

\* lines 75-79: return the recorded list, or make the cache directory
PullAssetBegin ==
    /\ pc = "pa_start"
    /\ IF MustDownload(cmd.force, cur.asset, dest[cur.dir])
       THEN /\ cache' = MakeCacheDir(cache)
            /\ pc' = "pa_download"
            /\ log' = Append(log, Ev("mkdir_cache", cur.asset.name))
            /\ UNCHANGED result
       ELSE /\ result' = cur.asset.files
            /\ pc' = PullAssetReturn
            /\ log' = Append(log, Ev("in_sync", cur.asset.name))
            /\ UNCHANGED cache
    /\ UNCHANGED <<manifest, lockfile, dest, remote, cmd, resolveLocals,
                   pullLocals, cur, error, pre, ops, env,
                   results, pushState, unitState>>

\* line 83: github_client.download_asset(asset.url, zip_path)
PullAssetDownload ==
    /\ pc = "pa_download"
    /\ log' = Append(log, Ev("download", cur.asset.name))
    /\ \/ /\ cache' = StoreDownload(cache, CurZip, RemoteBytes(cur.asset.url))
          /\ pc' = "pa_hash"
          /\ UNCHANGED error
       \/ \* the response is not 200: nothing is opened
          /\ Raise(GitHubAPIError("download_asset"))
          /\ UNCHANGED cache
       \/ \* the stream breaks after zip_path was opened and partly written
          /\ cache' = StoreDownload(cache, CurZip, ZPartial)
          /\ Raise(TransportError)
    /\ UNCHANGED <<manifest, lockfile, dest, remote, cmd, resolveLocals,
                   pullLocals, cur, result, pre, ops, env,
                   results, pushState, unitState>>

\* a hash check that lets every download pass
HashNeverDiffers(actual, expected) == FALSE

\* line 87: if actual_hash != asset.sha256
HashDiffers(actual, expected) == actual # expected

\* lines 86-93: the hash check, then the destination is cleared
PullAssetHash ==
    /\ pc = "pa_hash"
    /\ LET actual == ComputeHash(cache.files[CurZip]) IN
       IF HashDiffers(actual, cur.asset.sha256)
       THEN /\ cache' = MismatchCleanup(cache, CurZip)
            /\ Raise(HashMismatchError(cur.asset.name, cur.asset.sha256, actual))
            /\ log' = Append(log, Ev("hash_mismatch", cur.asset.name))
            /\ UNCHANGED dest
       ELSE /\ dest' = [dest EXCEPT ![cur.dir] = CleanDestination(dest[cur.dir])]
            /\ pc' = "pa_extract"
            /\ log' = Append(log, Ev("hash_ok", cur.asset.name))
            /\ UNCHANGED <<cache, error>>
    /\ UNCHANGED <<manifest, lockfile, remote, cmd, resolveLocals,
                   pullLocals, cur, result, pre, ops, env,
                   results, pushState, unitState>>

\* lines 95-102: extract_zip inside try, the cleanup in finally
PullAssetExtract ==
    /\ pc = "pa_extract"
    /\ LET b == cache.files[CurZip] IN
       IF IsZip(b)
       THEN /\ dest' = [dest EXCEPT ![cur.dir] = ExtractZipDir(b, dest[cur.dir])]
            /\ result' = ExtractZipNames(b)
            /\ pc' = PullAssetReturn
            /\ log' = Append(log, Ev("extracted", cur.asset.name))
            /\ UNCHANGED error
       ELSE /\ dest' = [dest EXCEPT ![cur.dir] = MakeDir(dest[cur.dir])]
            /\ Raise(BadZipFile)
            /\ log' = Append(log, Ev("extract_failed", cur.asset.name))
            /\ UNCHANGED result
    /\ cache' = FinallyCleanup(cache, CurZip)
    /\ UNCHANGED <<manifest, lockfile, remote, cmd, resolveLocals,
                   pullLocals, cur, pre, ops, env,
                   results, pushState, unitState>>

----------------------------------------------------------------------------
(* gda pull                                                                 *)

\* a pull that never compares the versions
NeverStale(l, m) == FALSE

\* line 70: the loaded lock is stale
NeedsResolve(l, m) == l.version # m.version

\* lines 58-68: the manifest and the lockfile are loaded; no lockfile, resolve
StartPull ==
    \E f \in BOOLEAN, p \in BOOLEAN :
        /\ manifest.exists
        /\ IF lockfile.exists
           THEN /\ StartFrame([name |-> "pull", force |-> f, prune |-> p],
                              "pl_version", LockLoad(lockfile), NoCur, "done")
                /\ log' = <<>>
                /\ result' = <<>>
           ELSE /\ StartFrame([name |-> "pull", force |-> f, prune |-> p],
                              "rs_get_release", NoLock, NoCur, "pl_load")
                /\ log' = <<Ev("resolve", "missing")>>
                /\ result' = <<>>

\* line 68: Lockfile.load after the resolve of line 67
PullLoad ==
    /\ pc = "pl_load"
    /\ lock' = LockLoad(lockfile)
    /\ pc' = "pl_version"
    /\ UNCHANGED <<world, cmd, resolveLocals, idx, updated, cur, result,
                   error, log, pre, ops, env,
                   results, pushState, unitState>>

\* lines 70-75: a stale lock is resolved again and loaded
PullCheckVersion ==
    /\ pc = "pl_version"
    /\ IF NeedsResolve(lock, manifest)
       THEN /\ pc' = "rs_get_release"
            /\ ret' = "pl_reload"
            /\ log' = Append(log, Ev("resolve", "stale"))
       ELSE /\ pc' = "pl_loop"
            /\ UNCHANGED <<ret, log>>
    /\ UNCHANGED <<world, cmd, release, locked, ridx, pullLocals, cur,
                   result, error, pre, ops, env,
                   results, pushState, unitState>>

PullReload ==
    /\ pc = "pl_reload"
    /\ lock' = LockLoad(lockfile)
    /\ pc' = "pl_loop"
    /\ UNCHANGED <<world, cmd, resolveLocals, idx, updated, cur, result,
                   error, log, pre, ops, env,
                   results, pushState, unitState>>

\* lines 98-109: one asset of the lock is skipped, found in sync or pulled
PullLoop ==
    /\ pc = "pl_loop"
    /\ idx <= Len(lock.assets)
    /\ LET asset == lock.assets[idx]
           dirs  == DestinationsOf(manifest, asset.name)
       IN IF dirs = {}
          THEN /\ log' = Append(log, Ev("skipped", asset.name))
               /\ idx' = idx + 1
               /\ UNCHANGED <<pc, cur>>
          ELSE LET dir == CHOOSE d \in dirs : TRUE IN
               /\ log' = IF cmd.force THEN log
                         ELSE Append(log, Ev("verify", asset.name))
               /\ IF ~cmd.force /\ VerifyAsset(asset, dest[dir])
                  THEN /\ idx' = idx + 1
                       /\ UNCHANGED <<pc, cur>>
                  ELSE /\ cur' = [asset |-> asset, dir |-> dir]
                       /\ pc' = "pa_start"
                       /\ UNCHANGED idx
    /\ UNCHANGED <<world, cmd, resolveLocals, lock, updated, result, error,
                   pre, ops, env,
                   results, pushState, unitState>>

\* a pull that takes every extraction for a change of the list
FilesChangedAlways(old, new) == TRUE

\* line 113: asset.files != files
FilesChanged(old, new) == old # new

\* lines 110-118: the file list goes into the lock, the destination is pruned
PullAfter ==
    /\ pc = "pl_after"
    /\ IF FilesChanged(lock.assets[idx].files, result)
       THEN /\ lock' = [lock EXCEPT !.assets[idx].files = result]
            /\ updated' = TRUE
       ELSE UNCHANGED <<lock, updated>>
    /\ IF cmd.prune
       THEN /\ dest' = [dest EXCEPT ![cur.dir] =
                           PruneDirectory(dest[cur.dir], Range(result))]
            /\ log' = Append(log, Ev("pruned", cur.asset.name))
       ELSE UNCHANGED <<dest, log>>
    /\ idx' = idx + 1
    /\ pc' = "pl_loop"
    /\ UNCHANGED <<manifest, lockfile, cache, remote, cmd, resolveLocals,
                   cur, result, error, pre, ops, env,
                   results, pushState, unitState>>

\* lines 121-125: the lock is saved when a file list changed
PullSave ==
    /\ pc = "pl_loop"
    /\ idx > Len(lock.assets)
    /\ IF updated
       THEN /\ lockfile' = LockSave(lock)
            /\ log' = Append(log, Ev("lock_written", "pull"))
       ELSE UNCHANGED <<lockfile, log>>
    /\ pc' = "done"
    /\ UNCHANGED <<manifest, dest, cache, remote, cmd, resolveLocals,
                   pullLocals, cur, result, error, pre, ops, env,
                   results, pushState, unitState>>

----------------------------------------------------------------------------
(* SyncService.pull_all, called with the loaded lock and the destinations   *)
(* of the manifest                                                          *)

StartPullAll ==
    \E f \in BOOLEAN, p \in BOOLEAN :
        /\ lockfile.exists
        /\ StartFrame([name |-> "pull_all", force |-> f, prune |-> p],
                      "al_loop", LockLoad(lockfile), NoCur, "done")
        /\ log' = <<>>
        /\ result' = <<>>

\* lines 124-129: an asset without destination is passed over, any other
\* goes to pull_asset
PullAllLoop ==
    /\ pc = "al_loop"
    /\ idx <= Len(lock.assets)
    /\ LET asset == lock.assets[idx]
           dirs  == DestinationsOf(manifest, asset.name)
       IN IF dirs = {}
          THEN /\ log' = Append(log, Ev("skipped", asset.name))
               /\ idx' = idx + 1
               /\ UNCHANGED <<pc, cur>>
          ELSE /\ cur' = [asset |-> asset, dir |-> CHOOSE d \in dirs : TRUE]
               /\ pc' = "pa_start"
               /\ UNCHANGED <<idx, log>>
    /\ UNCHANGED <<world, cmd, resolveLocals, lock, updated, result, error,
                   pre, ops, env, results, pushState, unitState>>

\* lines 130-133: the list goes into results, the destination is pruned
PullAllAfter ==
    /\ pc = "al_after"
    /\ results' = [n \in DOMAIN results \cup {cur.asset.name} |->
                      IF n = cur.asset.name THEN result ELSE results[n]]
    /\ IF cmd.prune
       THEN /\ dest' = [dest EXCEPT ![cur.dir] =
                           PruneDirectory(dest[cur.dir], Range(result))]
            /\ log' = Append(log, Ev("pruned", cur.asset.name))
       ELSE UNCHANGED <<dest, log>>
    /\ idx' = idx + 1
    /\ pc' = "al_loop"
    /\ UNCHANGED <<manifest, lockfile, cache, remote, cmd, resolveLocals,
                   lock, updated, cur, result, error, pre, ops, env,
                   pushState, unitState>>

\* line 135: return results
PullAllReturn ==
    /\ pc = "al_loop"
    /\ idx > Len(lock.assets)
    /\ pc' = "done"
    /\ UNCHANGED <<world, cmd, resolveLocals, pullLocals, cur, result, error,
                   log, pre, ops, env, results, pushState, unitState>>

----------------------------------------------------------------------------
Next ==
    \/ EditVersion
    \/ DropAsset
    \/ RemoteReplace
    \/ UserAddFile
    \/ UserRemoveFile
    \/ StartResolve
    \/ ResolveGetRelease
    \/ ResolveAsset
    \/ ResolveSave
    \/ CallVerifyAsset
    \/ StartPullAsset
    \/ PullAssetBegin
    \/ PullAssetDownload
    \/ PullAssetHash
    \/ PullAssetExtract
    \/ StartPull
    \/ PullLoad
    \/ PullCheckVersion
    \/ PullReload
    \/ PullLoop
    \/ PullAfter
    \/ PullSave
    \/ StartPullAll
    \/ PullAllLoop
    \/ PullAllAfter
    \/ PullAllReturn

Spec == Init /\ [][Next]_vars

----------------------------------------------------------------------------
(* gda push                                                                 *)

\* the manifest of a publisher: the second asset is packed from "raw"
PushAssets == <<Asset("a", "out_a"), [Asset("b", "out_b") EXCEPT !.source = "raw"]>>

\* what a source directory may hold
SourceChoices ==
    {AbsentDir,
     WriteFile(EmptyDir, PX, 1),
     WriteFile(WriteFile(EmptyDir, PX, 2), PY, 1)}

PushInit ==
    /\ manifest \in {[exists |-> TRUE, version |-> t, assets |-> PushAssets] : t \in Tags}
    /\ lockfile = NoLockfile
    /\ dest = [d \in DestDirs |-> AbsentDir]
    /\ cache = [exists |-> FALSE, files |-> [z \in {} |-> ZJunk]]
    /\ remote = InitialRemote
    /\ pc = "idle"
    /\ cmd = NoCmd
    /\ ret = "done"
    /\ release = NoRelease
    /\ locked = <<>>
    /\ ridx = 1
    /\ lock = NoLock
    /\ idx = 1
    /\ updated = FALSE
    /\ cur = NoCur
    /\ result = <<>>
    /\ error = NoError
    /\ log = <<>>
    /\ results = NoResults
    /\ source \in [SourceDirs -> SourceChoices]
    /\ build = NoBuild
    /\ archives = <<>>
    /\ existing = {}
    /\ file = NoFile
    /\ items = NoItems
    /\ pre = Snapshot
    /\ ops = 0
    /\ env = 0

\* what no step of push changes
pushFrame == <<manifest, lockfile, dest, cache, cmd, ret, locked, ridx, lock,
               updated, cur, result, pre, ops, env, results, source,
               file, items>>

\* archive.create_zip: the files of the directory in sorted order
CreateZip(d) ==
    LET ps == SortPaths(DOMAIN d.files)
    IN [kind    |-> "zip",
        entries |-> [i \in 1..Len(ps) |-> ZEntry(ps[i], d.files[ps[i]])]]

\* the classes derived from GDAError
GDAErrors ==
    {"ManifestNotFoundError", "ManifestValidationError",
     "LockfileNotFoundError", "LockfileCorruptedError", "AssetNotFoundError",
     "HashMismatchError", "GitHubAPIError", "ReleaseNotFoundError"}

\* line 96: except GDAError
IsGDAError(e) == e.kind \in GDAErrors

\* the attributes of a ReleaseInfo
ReleaseFields == {"tag_name", "name", "assets"}

AttributeError(a) == [kind |-> "AttributeError", attr |-> a]

\* a push that goes on to the release after a dry run
ReturnsAfterBuildNoDry(dry, packed) == packed = <<>>

\* lines 77-83: the two returns after the build loop
ReturnsAfterBuild(dry, packed) == dry \/ packed = <<>>

\* lines 49-54: the flags, Manifest.load
StartPush ==
    \E f \in BOOLEAN, d \in BOOLEAN :
        /\ manifest.exists
        /\ StartFrame([name |-> "push", force |-> f, prune |-> FALSE,
                       dry_run |-> d],
                      "pu_mkdir", NoLock, NoCur, "done")
        /\ log' = <<>>
        /\ result' = <<>>

\* lines 56-57: build_dir.mkdir(parents=True, exist_ok=True)
PushMakeBuildDir ==
    /\ pc = "pu_mkdir"
    /\ build' = [build EXCEPT !.exists = TRUE]
    /\ pc' = "pu_build"
    /\ UNCHANGED <<pushFrame, remote, release, archives, existing, idx,
                   error, log>>

\* lines 64-75: one asset of the manifest is packed, or passed over when
\* its source directory is not there
PushBuild ==
    /\ pc = "pu_build"
    /\ idx <= Len(manifest.assets)
    /\ LET asset == manifest.assets[idx]
           zip   == ZipName(asset.source)
           bytes == CreateZip(source[asset.source])
       IN IF ~source[asset.source].exists
          THEN /\ log' = Append(log, Ev("source_missing", asset.name))
               /\ UNCHANGED <<build, archives>>
          ELSE /\ build' = [build EXCEPT !.files =
                               [z \in DOMAIN build.files \cup {zip} |->
                                   IF z = zip THEN bytes ELSE build.files[z]]]
               /\ archives' = Append(archives,
                                     [name   |-> asset.name,
                                      zip    |-> zip,
                                      sha256 |-> ComputeHash(bytes)])
               /\ log' = Append(log, Ev("packed", asset.name))
    /\ idx' = idx + 1
    /\ UNCHANGED <<pushFrame, remote, release, existing, pc, error>>

\* lines 77-86: return after a dry run or with nothing packed, else go on
PushPacked ==
    /\ pc = "pu_build"
    /\ idx > Len(manifest.assets)
    /\ IF ReturnsAfterBuild(cmd.dry_run, archives)
       THEN /\ pc' = "done"
            /\ log' = Append(log, Ev("return", IF cmd.dry_run THEN "dry_run"
                                               ELSE "no_archives"))
       ELSE /\ pc' = "pu_get_release"
            /\ UNCHANGED log
    /\ UNCHANGED <<pushFrame, remote, release, archives, existing, build,
                   idx, error>>

\* what client.get_release may raise
GetReleaseErrors ==
    (IF remote[manifest.version].exists
     THEN {} ELSE {ReleaseNotFoundError(manifest.version)})
    \cup {GitHubAPIError("get_release"), TransportError}

\* lines 93-97 and 105: get_release; a GDAError leads to create_release,
\* any other exception leaves the command
PushGetRelease ==
    /\ pc = "pu_get_release"
    /\ \/ /\ remote[manifest.version].exists
          /\ release' = remote[manifest.version]
          /\ existing' = DOMAIN remote[manifest.version].assets
          /\ idx' = 1
          /\ pc' = "pu_upload"
          /\ log' = Append(log, Ev("get_release", manifest.version))
          /\ UNCHANGED error
       \/ \E e \in GetReleaseErrors :
             /\ log' = Append(log, Ev("get_release_failed", e.kind))
             /\ IF IsGDAError(e)
                THEN /\ pc' = "pu_create"
                     /\ UNCHANGED error
                ELSE Raise(e)
             /\ UNCHANGED <<release, existing, idx>>
    /\ UNCHANGED <<pushFrame, remote, archives, build>>

\* lines 98-105: create_release; the store refuses a tag it already has
PushCreateRelease ==
    /\ pc = "pu_create"
    /\ \/ /\ ~remote[manifest.version].exists
          /\ remote' = [remote EXCEPT ![manifest.version] =
                            Release([z \in {} |-> ZJunk])]
          /\ release' = Release([z \in {} |-> ZJunk])
          /\ existing' = {}
          /\ idx' = 1
          /\ pc' = "pu_upload"
          /\ log' = Append(log, Ev("create_release", manifest.version))
          /\ UNCHANGED error
       \/ /\ Raise(GitHubAPIError("create_release"))
          /\ log' = Append(log, Ev("create_release_failed", manifest.version))
          /\ UNCHANGED <<remote, release, existing, idx>>
    /\ UNCHANGED <<pushFrame, archives, build>>

\* lines 107-126: one archive is passed over or uploaded; the upload reads
\* release.id
PushUpload ==
    /\ pc = "pu_upload"
    /\ idx <= Len(archives)
    /\ LET asset_name == archives[idx].zip IN
       IF asset_name \in existing /\ ~cmd.force
       THEN /\ log' = Append(log, Ev("upload_skipped", asset_name))
            /\ idx' = idx + 1
            /\ UNCHANGED <<remote, pc, error>>
       ELSE IF "id" \notin ReleaseFields
       THEN /\ Raise(AttributeError("id"))
            /\ log' = Append(log, Ev("upload_failed", asset_name))
            /\ UNCHANGED <<remote, idx>>
       ELSE /\ remote' = [remote EXCEPT ![manifest.version].assets =
                             [z \in DOMAIN @ \cup {asset_name} |->
                                 IF z = asset_name THEN build.files[asset_name]
                                 ELSE @[z]]]
            /\ log' = Append(log, Ev("upload", asset_name))
            /\ idx' = idx + 1
            /\ UNCHANGED <<pc, error>>
    /\ UNCHANGED <<pushFrame, release, archives, existing, build>>

\* lines 128-131: "Push complete", client.close()
PushComplete ==
    /\ pc = "pu_upload"
    /\ idx > Len(archives)
    /\ pc' = "done"
    /\ log' = Append(log, Ev("return", "push_complete"))
    /\ UNCHANGED <<pushFrame, remote, release, archives, existing, build,
                   idx, error>>

PushNext ==
    \/ EditVersion
    \/ StartPush
    \/ PushMakeBuildDir
    \/ PushBuild
    \/ PushPacked
    \/ PushGetRelease
    \/ PushCreateRelease
    \/ PushUpload
    \/ PushComplete

PushSpec == PushInit /\ [][PushNext]_vars

----------------------------------------------------------------------------
(* A lock whose asset names are not plain                                   *)

\* asset names with a path separator and "..": Lockfile._from_dict takes
\* any key of the assets object as a name
TraversalNames == {"../e"}

TraversalAssets == <<Asset("a", "out_a"), Asset("../e", "out_b")>>

\* a lock that names the two assets of release v1, the second under a
\* name that climbs out of the directory it is joined to
TraversalLock ==
    [version |-> "v1",
     assets  |-> <<LockedAsset("a", Url("v1", "a.zip"), ComputeHash(Z1), <<>>),
                   LockedAsset("../e", Url("v1", "b.zip"), ComputeHash(Z2),
                               <<>>)>>]

TraversalInit ==
    /\ manifest = [exists |-> TRUE, version |-> "v1", assets |-> TraversalAssets]
    /\ lockfile = LockSave(TraversalLock)
    /\ dest \in [DestDirs -> {AbsentDir, WriteFile(EmptyDir, PZ, 9)}]
    /\ cache = [exists |-> FALSE, files |-> [z \in {} |-> ZJunk]]
    /\ remote = InitialRemote
    /\ pc = "idle"
    /\ cmd = NoCmd
    /\ ret = "done"
    /\ release = NoRelease
    /\ locked = <<>>
    /\ ridx = 1
    /\ lock = NoLock
    /\ idx = 1
    /\ updated = FALSE
    /\ cur = NoCur
    /\ result = <<>>
    /\ error = NoError
    /\ log = <<>>
    /\ results = NoResults
    /\ source = [d \in SourceDirs |-> AbsentDir]
    /\ build = NoBuild
    /\ archives = <<>>
    /\ existing = {}
    /\ file = NoFile
    /\ items = NoItems
    /\ pre = Snapshot
    /\ ops = 0
    /\ env = 0

TraversalNext ==
    \/ StartPullAsset
    \/ PullAssetBegin
    \/ PullAssetDownload
    \/ PullAssetHash
    \/ PullAssetExtract
    \/ StartPull
    \/ PullCheckVersion
    \/ PullLoop
    \/ PullAfter
    \/ PullSave

TraversalSpec == TraversalInit /\ [][TraversalNext]_vars

----------------------------------------------------------------------------
(* Parsed JSON and YAML: what json.loads and yaml.safe_load return          *)

Null == [t |-> "null"]

Str(s) == [t |-> "str", s |-> s]

List(xs) == [t |-> "list", xs |-> xs]

\* a dict, its items in insertion order
Dict(kvs) == [t |-> "dict", items |-> kvs]

KV(k, v) == [k |-> k, v |-> v]

Keys(d) == {d.items[i].k : i \in 1..Len(d.items)}

\* dict.get(k, default)
Get(d, k, default) ==
    IF k \in Keys(d)
    THEN d.items[CHOOSE i \in 1..Len(d.items) : d.items[i].k = k].v
    ELSE default

\* bool(v) of Python
Truthy(v) ==
    CASE v.t = "null" -> FALSE
      [] v.t = "str"  -> v.s # ""
      [] v.t = "list" -> v.xs # <<>>
      [] v.t = "dict" -> v.items # <<>>

\* the strings of a list of strings
Strings(v) == [i \in 1..Len(v.xs) |-> v.xs[i].s]

StrList(ss) == List([i \in 1..Len(ss) |-> Str(ss[i])])

\* a file holding a value as JSON text, as YAML text; one that does not
\* parse
JsonText(v) == [kind |-> "text", fmt |-> "json", data |-> v]

YamlText(v) == [kind |-> "text", fmt |-> "yaml", data |-> v]

Garbage == [kind |-> "garbage"]

\* what a call gives back: a value, or the exception it raised
Ok(v) == [ok |-> TRUE, value |-> v]

Err(kind, what) == [ok |-> FALSE, error |-> [kind |-> kind, what |-> what]]

----------------------------------------------------------------------------
(* Lockfile.load and Lockfile.save on the text of gda.lock                  *)

\* a lookup without the default: an entry without "files" is broken
FilesOfRequired(spec) == Get(spec, "files", Null)

\* line 94: spec.get("files", [])
FilesOf(spec) == Get(spec, "files", List(<<>>))

\* lines 77-103: the loop over raw_assets.items()
RECURSIVE LockAssetsFrom(_, _)
LockAssetsFrom(kvs, acc) ==
    IF kvs = <<>> THEN Ok(acc)
    ELSE LET name == Head(kvs).k
             spec == Head(kvs).v
         IN IF spec.t # "dict" THEN Err("LockfileCorruptedError", "asset")
            ELSE LET url    == Get(spec, "url", Null)
                     sha256 == Get(spec, "sha256", Null)
                     files  == FilesOf(spec)
                 IN IF ~Truthy(url) THEN Err("LockfileCorruptedError", "url")
                    ELSE IF ~Truthy(sha256)
                    THEN Err("LockfileCorruptedError", "sha256")
                    ELSE IF files.t # "list"
                    THEN Err("LockfileCorruptedError", "files")
                    ELSE LockAssetsFrom(Tail(kvs),
                            Append(acc, LockedAsset(name, url.s, sha256.s,
                                                    Strings(files))))

\* lines 53-105: Lockfile._from_dict
LockfileFromDict(data) ==
    IF data.t # "dict" THEN Err("LockfileCorruptedError", "root")
    ELSE LET version    == Get(data, "version", Null)
             raw_assets == Get(data, "assets", Dict(<<>>))
         IN IF ~Truthy(version) THEN Err("LockfileCorruptedError", "version")
            ELSE IF raw_assets.t # "dict"
            THEN Err("LockfileCorruptedError", "assets")
            ELSE LET r == LockAssetsFrom(raw_assets.items, <<>>)
                 IN IF r.ok THEN Ok([version |-> version.s, assets |-> r.value])
                    ELSE r

\* lines 28-51: Lockfile.load
LockfileLoad(f) ==
    IF f.kind = "absent" THEN Err("LockfileNotFoundError", "path")
    ELSE IF f.kind = "garbage" THEN Err("LockfileCorruptedError", "JSON")
    ELSE LockfileFromDict(f.data)

\* lines 113-123: the dict that save() dumps
LockfileToDict(l) ==
    Dict(<<KV("version", Str(l.version)),
           KV("assets",
              Dict([i \in 1..Len(l.assets) |->
                      KV(l.assets[i].name,
                         Dict(<<KV("url", Str(l.assets[i].url)),
                                KV("sha256", Str(l.assets[i].sha256)),
                                KV("files", StrList(l.assets[i].files))>>))]))>>)

\* lines 107-127: Lockfile.save; json.dumps keeps the order of the keys
LockfileSave(l) == JsonText(LockfileToDict(l))

----------------------------------------------------------------------------
(* Manifest.load and Manifest.save on the text of gda.yml                   *)

ManifestOf(r, v, assets) == [repository |-> r, version |-> v, assets |-> assets]

ManifestAsset(n, src, dst, ex) ==
    [name |-> n, source |-> src, destination |-> dst, excludes |-> ex]

\* a lookup that leaves the source empty when the manifest gives none
SourceOfRaw(spec, name) == Get(spec, "source", Str(""))

\* line 88: spec.get("source") or name
SourceOf(spec, name) ==
    LET v == Get(spec, "source", Null)
    IN IF Truthy(v) THEN v ELSE Str(name)

\* lines 83-104: the loop over raw_assets.items()
RECURSIVE ManifestAssetsFrom(_, _)
ManifestAssetsFrom(kvs, acc) ==
    IF kvs = <<>> THEN Ok(acc)
    ELSE LET name == Head(kvs).k
             spec == Head(kvs).v
         IN IF spec.t # "dict" THEN Err("ManifestValidationError", "asset")
            ELSE LET src         == SourceOf(spec, name)
                     destination == Get(spec, "destination", Null)
                     excludes    == Get(spec, "excludes", List(<<>>))
                 IN IF ~Truthy(destination)
                    THEN Err("ManifestValidationError", "destination")
                    ELSE IF excludes.t # "list"
                    THEN Err("ManifestValidationError", "excludes")
                    ELSE ManifestAssetsFrom(Tail(kvs),
                            Append(acc, ManifestAsset(name, src.s,
                                                      destination.s,
                                                      Strings(excludes))))

\* lines 55-106: Manifest._from_dict
ManifestFromDict(data) ==
    IF data.t # "dict" THEN Err("ManifestValidationError", "root")
    ELSE LET repository == Get(data, "repository", Null)
             version    == Get(data, "version", Null)
             raw_assets == Get(data, "assets", Dict(<<>>))
         IN IF ~Truthy(repository)
            THEN Err("ManifestValidationError", "repository")
            ELSE IF ~Truthy(version)
            THEN Err("ManifestValidationError", "version")
            ELSE IF raw_assets.t # "dict"
            THEN Err("ManifestValidationError", "assets")
            ELSE LET r == ManifestAssetsFrom(raw_assets.items, <<>>)
                 IN IF r.ok
                    THEN Ok(ManifestOf(repository.s, version.s, r.value))
                    ELSE r

\* lines 30-53: Manifest.load
ManifestLoad(f) ==
    IF f.kind = "absent" THEN Err("ManifestNotFoundError", "path")
    ELSE IF f.kind = "garbage" THEN Err("ManifestValidationError", "YAML")
    ELSE ManifestFromDict(f.data)

\* a save that leaves the source out, as it does with empty excludes
ManifestAssetToDictNoSource(a) ==
    Dict(<<KV("destination", Str(a.destination))>>
         \o (IF a.excludes # <<>>
             THEN <<KV("excludes", StrList(a.excludes))>> ELSE <<>>))

\* lines 118-122: the dict of one asset
ManifestAssetToDict(a) ==
    Dict(<<KV("source", Str(a.source)), KV("destination", Str(a.destination))>>
         \o (IF a.excludes # <<>>
             THEN <<KV("excludes", StrList(a.excludes))>> ELSE <<>>))

\* lines 114-125: the dict that save() dumps
ManifestToDict(m) ==
    Dict(<<KV("repository", Str(m.repository)),
           KV("version", Str(m.version)),
           KV("assets",
              Dict([i \in 1..Len(m.assets) |->
                      KV(m.assets[i].name, ManifestAssetToDict(m.assets[i]))]))>>)

\* the keys of the model in the order of str < str
KeyOrder ==
    <<"a", "assets", "b", "destination", "excludes", "repository", "source",
      "version">>

KeyRank(k) == CHOOSE i \in 1..Len(KeyOrder) : KeyOrder[i] = k

\* items of a dict sorted by key
RECURSIVE SortItems(_)
SortItems(kvs) ==
    IF kvs = <<>> THEN <<>>
    ELSE LET m == CHOOSE i \in 1..Len(kvs) :
                     \A j \in 1..Len(kvs) : KeyRank(kvs[i].k) <= KeyRank(kvs[j].k)
         IN <<kvs[m]>> \o SortItems(SubSeq(kvs, 1, m - 1)
                                    \o SubSeq(kvs, m + 1, Len(kvs)))

\* yaml.dump with its default sort_keys=True: every mapping is written
\* with its keys sorted
RECURSIVE YamlDump(_)
YamlDump(v) ==
    IF v.t = "dict"
    THEN LET sorted == SortItems(v.items)
         IN Dict([i \in 1..Len(sorted) |->
                    KV(sorted[i].k, YamlDump(sorted[i].v))])
    ELSE v

\* lines 108-129: Manifest.save
ManifestSave(m) == YamlText(YamlDump(ManifestToDict(m)))

----------------------------------------------------------------------------
(* The model files read and written one call at a time                      *)

\* what every specification of single calls starts from
UnitStart ==
    /\ cache = [exists |-> FALSE, files |-> [z \in {} |-> ZJunk]]
    /\ remote = InitialRemote
    /\ pc = "idle"
    /\ cmd = NoCmd
    /\ ret = "done"
    /\ release = NoRelease
    /\ locked = <<>>
    /\ ridx = 1
    /\ lock = NoLock
    /\ idx = 1
    /\ updated = FALSE
    /\ cur = NoCur
    /\ result = <<>>
    /\ error = NoError
    /\ log = <<>>
    /\ results = NoResults
    /\ archives = <<>>
    /\ existing = {}
    /\ ops = 0
    /\ env = 0

\* what no single call changes
unitFrame == <<manifest, lockfile, cache, remote, ret, release, locked, ridx,
               lock, idx, updated, cur, log, pre, ops, env, results, archives,
               existing>>

\* a call returns r: a value, or the exception it raised
Returns(r) ==
    /\ result' = r
    /\ error' = IF r.ok THEN NoError ELSE r.error
    /\ pc' = IF r.ok THEN "done" ELSE "failed"

AssetKeys == {"a", "b"}

\* the entries of a mapping of at most one entry per key, in either order
Entries(specs) ==
    {<<>>}
    \cup {<<KV(k, x)>> : k \in AssetKeys, x \in specs}
    \cup {<<KV(p[1], x), KV(p[2], y)>> :
             p \in {q \in AssetKeys \X AssetKeys : q[1] # q[2]},
             x \in specs, y \in specs}

\* with[f] says which of the fields kvs the mapping has
Fields(kvs, with) ==
    Dict(LET RECURSIVE Pick(_)
             Pick(i) == IF i > Len(kvs) THEN <<>>
                        ELSE (IF with[i] THEN <<kvs[i]>> ELSE <<>>) \o Pick(i + 1)
         IN Pick(1))

\* every mapping that has some of the fields kvs
SomeFields(kvs) == {Fields(kvs, w) : w \in [1..Len(kvs) -> BOOLEAN]}

LockAssetSpecs ==
    SomeFields(<<KV("url", Str("u1")), KV("sha256", Str("h1")),
                 KV("files", StrList(<<"y", "x">>))>>)
    \cup {Str("u1"),
          Dict(<<KV("url", Str("u1")), KV("sha256", Str("h1")),
                 KV("files", Str("x"))>>)}

LockRoots ==
    {Fields(<<KV("version", v), KV("assets", a)>>, w) :
        v \in {Str("v1"), Str("")},
        a \in {Dict(e) : e \in Entries(LockAssetSpecs)} \cup {Null, List(<<>>)},
        w \in [1..2 -> BOOLEAN]}
    \cup {List(<<>>), Str("v1")}

LockFiles == {NoFile, Garbage} \cup {JsonText(d) : d \in LockRoots}

ManifestAssetSpecs ==
    SomeFields(<<KV("source", Str("s")), KV("destination", Str("out")),
                 KV("excludes", StrList(<<"x">>))>>)
    \cup {Null,
          Dict(<<KV("source", Str("")), KV("destination", Str("out")),
                 KV("excludes", List(<<>>))>>),
          Dict(<<KV("destination", Str("out")), KV("excludes", Str("x"))>>)}

ManifestRoots ==
    {Fields(<<KV("version", Str("v1")), KV("repository", r), KV("assets", a)>>, w) :
        r \in {Str("o/r"), Str("")},
        a \in {Dict(e) : e \in Entries(ManifestAssetSpecs)} \cup {List(<<>>)},
        w \in [1..3 -> BOOLEAN]}
    \cup {Fields(<<KV("version", Str("")), KV("repository", Str("o/r"))>>,
                 [i \in 1..2 |-> TRUE]),
          List(<<>>), Null}

ManifestFiles == {NoFile, Garbage} \cup {YamlText(d) : d \in ManifestRoots}

CodecInit ==
    /\ UnitStart
    /\ manifest = NoManifest
    /\ lockfile = NoLockfile
    /\ dest = [d \in DestDirs |-> AbsentDir]
    /\ source = [d \in SourceDirs |-> AbsentDir]
    /\ build = NoBuild
    /\ items = NoItems
    /\ file \in LockFiles \cup ManifestFiles
    /\ pre = Snapshot

IsJson(f) == IF f.kind = "text" THEN f.fmt = "json" ELSE TRUE

IsYaml(f) == IF f.kind = "text" THEN f.fmt = "yaml" ELSE TRUE

Call(n) == [name |-> n, force |-> FALSE, prune |-> FALSE]

CallOn(n, x) == [name |-> n, force |-> FALSE, prune |-> FALSE, arg |-> x]

\* Lockfile.load(path)
LoadLockfile ==
    /\ Idle
    /\ IsJson(file)
    /\ cmd' = Call("Lockfile.load")
    /\ Returns(LockfileLoad(file))
    /\ UNCHANGED <<unitFrame, dest, source, build, file, items>>

\* lockfile.save(path), of a lockfile that load returned
SaveLockfile ==
    /\ pc = "done"
    /\ cmd.name = "Lockfile.load"
    /\ cmd' = CallOn("Lockfile.save", result.value)
    /\ file' = LockfileSave(result.value)
    /\ pc' = "done"
    /\ UNCHANGED <<unitFrame, dest, source, build, items, result, error>>

\* Manifest.load(path)
LoadManifest ==
    /\ Idle
    /\ IsYaml(file)
    /\ cmd' = Call("Manifest.load")
    /\ Returns(ManifestLoad(file))
    /\ UNCHANGED <<unitFrame, dest, source, build, file, items>>

\* manifest.save(path), of a manifest that load returned
SaveManifest ==
    /\ pc = "done"
    /\ cmd.name = "Manifest.load"
    /\ cmd' = CallOn("Manifest.save", result.value)
    /\ file' = ManifestSave(result.value)
    /\ pc' = "done"
    /\ UNCHANGED <<unitFrame, dest, source, build, items, result, error>>

CodecNext ==
    \/ LoadLockfile
    \/ SaveLockfile
    \/ LoadManifest
    \/ SaveManifest

CodecSpec == CodecInit /\ [][CodecNext]_vars

----------------------------------------------------------------------------
(* ArchiveService.create_zip, file by file                                  *)

FIXED_TIMESTAMP == <<2020, 1, 1, 0, 0, 0>>

\* str(rel_path): the components joined by "/"
RECURSIVE Chars(_)
Chars(p) ==
    IF Len(p) <= 1 THEN p ELSE <<Head(p), "/">> \o Chars(Tail(p))

\* rel_path.split("/")[-1]
Basename(p) == <<p[Len(p)]>>

\* fnmatch.fnmatch(name, pat) for patterns of letters, "/" and "*":
\* "*" stands for any characters, "/" among them
RECURSIVE Fnmatch(_, _)
Fnmatch(name, pat) ==
    IF pat = <<>> THEN name = <<>>
    ELSE IF Head(pat) = "*"
    THEN \/ Fnmatch(name, Tail(pat))
         \/ name # <<>> /\ Fnmatch(Tail(name), pat)
    ELSE IF name = <<>> THEN FALSE
    ELSE /\ Head(pat) = Head(name)
         /\ Fnmatch(Tail(name), Tail(pat))

\* pattern.startswith("**/")
StartsWithStars(pat) == Len(pat) >= 3 /\ SubSeq(pat, 1, 3) = <<"*", "*", "/">>

\* no rule for the patterns that start with "**/"
NoBasenameRule(p, pattern) == FALSE

\* lines 93-97: a pattern that starts with "**/" is matched with the
\* basename too
BasenameRule(p, pattern) ==
    /\ StartsWithStars(pattern)
    /\ Fnmatch(Basename(p), SubSeq(pattern, 4, Len(pattern)))

\* lines 81-100: _matches_exclude
RECURSIVE MatchesExclude(_, _)
MatchesExclude(p, excludes) ==
    IF excludes = <<>> THEN FALSE
    ELSE LET pattern == Head(excludes)
         IN IF BasenameRule(p, pattern) THEN TRUE
            ELSE IF Fnmatch(Chars(p), pattern) THEN TRUE
            ELSE MatchesExclude(p, Tail(excludes))

\* lines 66-76: the loop over source_dir.rglob("*"), in the order listed
RECURSIVE KeptFiles(_, _)
KeptFiles(listing, excludes) ==
    IF listing = <<>> THEN <<>>
    ELSE IF MatchesExclude(Head(listing), excludes)
    THEN KeptFiles(Tail(listing), excludes)
    ELSE <<Head(listing)>> \o KeptFiles(Tail(listing), excludes)

\* _collect_files returning the files in the order listed
CollectFilesUnsorted(listing, excludes) == KeptFiles(listing, excludes)

\* lines 56-79: _collect_files
CollectFiles(listing, excludes) == Sorted(KeptFiles(listing, excludes))

\* lines 45-52: the entry of one file; the time of its last change is not
\* used
ZipInfo(p, c, mtime) == [name |-> p, data |-> c, date_time |-> FIXED_TIMESTAMP]

\* lines 35-52: the archive create_zip writes for a directory with the
\* files fs, listed by rglob in the order of listing, changed last at mtime
CreateZipOf(fs, listing, mtime, excludes) ==
    LET files == CollectFiles(listing, excludes)
    IN [kind    |-> "zip",
        entries |-> [i \in 1..Len(files) |->
                        ZipInfo(files[i], fs[files[i]], mtime[files[i]])]]

\* compute_hash over an archive that create_zip wrote: one digest for each
\* byte string
Sha256(b) == [sha256 |-> b]

\* the orders a directory may list the files S in
Listings(S) ==
    {l \in [1..Cardinality(S) -> S] :
        \A i, j \in 1..Cardinality(S) : l[i] = l[j] => i = j}

Mtimes == {1, 2}

\* the files of a checkout are changed last when it is made
MtimesOf(S) == {[p \in S |-> m] : m \in Mtimes}

TreePaths == {PX, PY, PU}

\* a directory of regular files at the paths S
Tree(S, c) ==
    [exists |-> TRUE,
     files  |-> [p \in S |-> IF p = PX THEN c ELSE 1],
     dirs   |-> UNION {Ancestors(p) : p \in S}]

Trees == {Tree(S, c) : S \in SUBSET TreePaths, c \in {1, 2}}

\* "x", "*y", "d/*", "**/x", "d", "*"
Patterns ==
    {<<"x">>, <<"*", "y">>, <<"d", "/", "*">>, <<"*", "*", "/", "x">>,
     <<"d">>, <<"*">>}

ExcludeLists == {<<>>} \cup {<<pat>> : pat \in Patterns}

\* two copies of one tree
ArchiveInit ==
    /\ UnitStart
    /\ manifest = NoManifest
    /\ lockfile = NoLockfile
    /\ dest = [d \in DestDirs |-> AbsentDir]
    /\ \E t \in Trees : source = [d \in SourceDirs |-> t]
    /\ build = NoBuild
    /\ items = NoItems
    /\ file = NoFile
    /\ pre = Snapshot

archiveFrame == <<manifest, lockfile, cache, remote, ret, release, locked,
                  ridx, lock, idx, updated, cur, log, env, results, existing,
                  source, file, items>>

\* create_zip(source_dir, output_path, excludes)
CreateZipCall ==
    /\ Idle
    /\ ops < MaxOps
    /\ ops' = ops + 1
    /\ \E s \in SourceDirs, excludes \in ExcludeLists :
       \E listing \in Listings(DOMAIN source[s].files),
          mtime \in MtimesOf(DOMAIN source[s].files) :
          LET zip   == ZipName(s)
              bytes == CreateZipOf(source[s].files, listing, mtime, excludes)
          IN /\ cmd' = [name |-> "create_zip", force |-> FALSE,
                        prune |-> FALSE, dir |-> s, excludes |-> excludes,
                        listing |-> listing]
             /\ build' = [exists |-> TRUE,
                          files  |-> [z \in DOMAIN build.files \cup {zip} |->
                                         IF z = zip THEN bytes
                                         ELSE build.files[z]]]
             /\ archives' = Append(archives,
                                   [dir |-> s, excludes |-> excludes,
                                    bytes |-> bytes, hash |-> Sha256(bytes)])
             /\ Returns(Ok(Sha256(bytes)))
    /\ pre' = Snapshot
    /\ UNCHANGED <<archiveFrame, dest>>

\* extract_zip(zip_path, dest_dir) on an archive of the build directory
ExtractZipCall ==
    /\ Idle
    /\ ops < MaxOps
    /\ ops' = ops + 1
    /\ \E zip \in DOMAIN build.files, d \in DestDirs :
          /\ cmd' = [name |-> "extract_zip", force |-> FALSE, prune |-> FALSE,
                     zip |-> zip, dest |-> d]
          /\ dest' = [dest EXCEPT ![d] = ExtractZipDir(build.files[zip], dest[d])]
          /\ Returns(Ok(ExtractZipNames(build.files[zip])))
    /\ pre' = Snapshot
    /\ UNCHANGED <<archiveFrame, build, archives>>

ArchiveNext ==
    \/ CreateZipCall
    \/ ExtractZipCall

ArchiveSpec == ArchiveInit /\ [][ArchiveNext]_vars

----------------------------------------------------------------------------
(* The commands given the path of a manifest that does not exist            *)

\* a command that lets the exception pass
ExitCodeSwallowed(e) == 0

\* resolve.py 33-35, pull.py 46-48, push.py 44-46: a GDAError ends the
\* command with typer.Exit(1); any other exception ends the process with 1
\* as well
ExitCodeOf(e) == 1

Z4 == [kind |-> "zip", entries |-> <<ZEntry(PZ, 1)>>]

\* what may be on disk and in the store beforehand
NoManifestInit ==
    /\ UnitStart
    /\ manifest = NoManifest
    /\ file = NoFile
    /\ lockfile \in {NoLockfile, LockSave(TraversalLock)}
    /\ dest \in [DestDirs -> {AbsentDir, WriteFile(EmptyDir, PZ, 9)}]
    /\ source \in [SourceDirs -> {AbsentDir, WriteFile(EmptyDir, PX, 1)}]
    /\ build \in {NoBuild, [exists |-> TRUE, files |-> [z \in {"a.zip"} |-> Z4]]}
    /\ items = NoItems
    /\ pre = Snapshot

\* resolve.py 41, pull.py 58, push.py 52: Manifest.load(manifest_path) is
\* the first statement of every command; what it raises ends the command
FailsAtManifestLoad(c) ==
    /\ Idle
    /\ ops < MaxOps
    /\ ops' = ops + 1
    /\ ~manifest.exists
    /\ LET r == ManifestLoad(file)
       IN /\ ~r.ok
          /\ error' = r.error
          /\ result' = [exit_code |-> ExitCodeOf(r.error)]
    /\ cmd' = c
    /\ pc' = "failed"
    /\ log' = <<>>
    /\ pre' = Snapshot
    /\ UNCHANGED <<world, ret, release, locked, ridx, lock, idx, updated, cur,
                   env, results, pushState, unitState>>

ResolveNoManifest ==
    FailsAtManifestLoad([name |-> "resolve", force |-> FALSE, prune |-> FALSE])

PullNoManifest ==
    \E f \in BOOLEAN, p \in BOOLEAN :
        FailsAtManifestLoad([name |-> "pull", force |-> f, prune |-> p])

PushNoManifest ==
    \E f \in BOOLEAN, d \in BOOLEAN :
        FailsAtManifestLoad([name |-> "push", force |-> f, prune |-> FALSE,
                             dry_run |-> d])

NoManifestNext ==
    \/ ResolveNoManifest
    \/ PullNoManifest
    \/ PushNoManifest

NoManifestSpec == NoManifestInit /\ [][NoManifestNext]_vars

----------------------------------------------------------------------------
(* typ_tmpl: ItemStorage, the items kept as files of one directory          *)

\* item ids and file names are sequences of characters; ".txt" is written
\* as one character
IdA == <<"a">>
IdB == <<"b">>
IdEmpty == <<>>
IdSlash == <<"x", "/", "y">>
IdBackslash == <<"x", "\\", "y">>

ItemIds == {IdA, IdB, IdEmpty, IdSlash, IdBackslash}

Contents == {1, 2}

Item(id, content) == [id |-> id, content |-> content]

\* the characters in the order of str < str
CharOrder == <<".txt", "/", "\\", "a", "b", "x", "y">>

OrdOf(c) == CHOOSE i \in 1..Len(CharOrder) : CharOrder[i] = c

RECURSIVE StrLess(_, _)
StrLess(s, t) ==
    IF s = <<>> THEN t # <<>>
    ELSE IF t = <<>> THEN FALSE
    ELSE IF Head(s) # Head(t) THEN OrdOf(Head(s)) < OrdOf(Head(t))
    ELSE StrLess(Tail(s), Tail(t))

\* an id taken for safe whatever it holds
AnyItemId(id) == TRUE

\* lines 30-33: _validate_item_id
ValidItemId(id) == "/" \notin Range(id) /\ "\\" \notin Range(id)

\* line 28: base_dir / f"{item_id}.txt", the name of the file
ItemFile(id) == id \o <<".txt">>

\* Path.stem: the name without its last suffix; the name ".txt" has no
\* suffix
Stem(name) ==
    IF Len(name) > 1 /\ name[Len(name)] = ".txt"
    THEN SubSeq(name, 1, Len(name) - 1)
    ELSE name

\* line 57: sorted(base_dir.glob("*.txt"), key=lambda p: p.stem)
RECURSIVE SortedByStem(_)
SortedByStem(S) ==
    IF S = {} THEN <<>>
    ELSE LET m == CHOOSE n \in S :
                     \A o \in S \ {n} : StrLess(Stem(n), Stem(o))
         IN <<m>> \o SortedByStem(S \ {m})

\* lines 55-58: list()
ListItems(fs) ==
    LET names == SortedByStem(DOMAIN fs)
    IN [i \in 1..Len(names) |-> Item(Stem(names[i]), fs[names[i]])]

\* the storage after __init__, on an empty base directory
ItemInit ==
    /\ UnitStart
    /\ manifest = NoManifest
    /\ lockfile = NoLockfile
    /\ dest = [d \in DestDirs |-> AbsentDir]
    /\ source = [d \in SourceDirs |-> AbsentDir]
    /\ build = NoBuild
    /\ file = NoFile
    /\ items = NoItems
    /\ pre = Snapshot

\* a call on the storage; before is the directory as the call finds it
ItemCall(n, id, c) ==
    [name |-> n, force |-> FALSE, prune |-> FALSE, id |-> id, content |-> c,
     before |-> items]

itemFrame == <<manifest, lockfile, cache, remote, ret, release, locked, ridx,
               lock, idx, updated, cur, log, pre, ops, env, archives,
               existing, dest, source, build, file>>

\* lines 35-47: add(item); results keeps the items added and not deleted
\* since, by id
ItemAdd ==
    /\ Idle
    /\ \E id \in ItemIds, c \in Contents :
          /\ cmd' = ItemCall("add", id, c)
          /\ IF ~ValidItemId(id)
             THEN /\ Returns(Err("ValueError", "id"))
                  /\ UNCHANGED <<items, results>>
             ELSE IF ItemFile(id) \in DOMAIN items
             THEN /\ Returns(Err("ItemExistsError", "id"))
                  /\ UNCHANGED <<items, results>>
             ELSE /\ items' = [n \in DOMAIN items \cup {ItemFile(id)} |->
                                  IF n = ItemFile(id) THEN c ELSE items[n]]
                  /\ results' = [i \in DOMAIN results \cup {id} |->
                                    IF i = id THEN c ELSE results[i]]
                  /\ Returns(Ok(Null))
    /\ UNCHANGED itemFrame

\* lines 60-72: delete(item_id)
ItemDelete ==
    /\ Idle
    /\ \E id \in ItemIds :
          /\ cmd' = ItemCall("delete", id, 0)
          /\ IF ~ValidItemId(id)
             THEN /\ Returns(Err("ValueError", "id"))
                  /\ UNCHANGED <<items, results>>
             ELSE IF ItemFile(id) \notin DOMAIN items
             THEN /\ Returns(Err("ItemNotFoundError", "id"))
                  /\ UNCHANGED <<items, results>>
             ELSE /\ items' = [n \in DOMAIN items \ {ItemFile(id)} |-> items[n]]
                  /\ results' = [i \in DOMAIN results \ {id} |-> results[i]]
                  /\ Returns(Ok(Null))
    /\ UNCHANGED itemFrame

\* lines 74-83: exists(item_id)
ItemExists ==
    /\ Idle
    /\ \E id \in ItemIds :
          /\ cmd' = ItemCall("exists", id, 0)
          /\ IF ~ValidItemId(id)
             THEN Returns(Err("ValueError", "id"))
             ELSE Returns(Ok(ItemFile(id) \in DOMAIN items))
    /\ UNCHANGED <<itemFrame, items, results>>

\* lines 85-97: get(item_id)
ItemGet ==
    /\ Idle
    /\ \E id \in ItemIds :
          /\ cmd' = ItemCall("get", id, 0)
          /\ IF ~ValidItemId(id)
             THEN Returns(Err("ValueError", "id"))
             ELSE IF ItemFile(id) \in DOMAIN items
             THEN Returns(Ok(Item(id, items[ItemFile(id)])))
             ELSE Returns(Ok(Null))
    /\ UNCHANGED <<itemFrame, items, results>>

\* lines 49-58: list()
ItemList ==
    /\ Idle
    /\ cmd' = ItemCall("list", <<>>, 0)
    /\ Returns(Ok(ListItems(items)))
    /\ UNCHANGED <<itemFrame, items, results>>

ItemNext ==
    \/ ItemAdd
    \/ ItemDelete
    \/ ItemExists
    \/ ItemGet
    \/ ItemList

ItemSpec == ItemInit /\ [][ItemNext]_vars

----------------------------------------------------------------------------
(* gda pull, run again                                                      *)

\* what the release of the repeated pull may hold for an asset
RepeatBlobs == {Z0, Z1, Z2}

\* the release store: one release, an archive for each asset of the manifest
RepeatRemote(ba, bb) ==
    [t \in Tags |->
        IF t = "v1" THEN Release([z \in {"a.zip", "b.zip"} |->
                                     IF z = "a.zip" THEN ba ELSE bb])
        ELSE NoRelease]

\* gda.lock as resolve writes it for that release
RepeatLock(ba, bb) ==
    LockSave([version |-> "v1",
              assets  |-> <<LockedAsset("a", Url("v1", "a.zip"), ComputeHash(ba), <<>>),
                            LockedAsset("b", Url("v1", "b.zip"), ComputeHash(bb), <<>>)>>])

RepeatInit ==
    /\ manifest = [exists |-> TRUE, version |-> "v1", assets |-> InitialAssets]
    /\ \E ba \in RepeatBlobs, bb \in RepeatBlobs :
          /\ remote = RepeatRemote(ba, bb)
          /\ lockfile = RepeatLock(ba, bb)
    /\ dest = [d \in DestDirs |-> AbsentDir]
    /\ cache = [exists |-> FALSE, files |-> [z \in {} |-> ZJunk]]
    /\ pc = "idle"
    /\ cmd = NoCmd
    /\ ret = "done"
    /\ release = NoRelease
    /\ locked = <<>>
    /\ ridx = 1
    /\ lock = NoLock
    /\ idx = 1
    /\ updated = FALSE
    /\ cur = NoCur
    /\ result = <<>>
    /\ error = NoError
    /\ log = <<>>
    /\ results = NoResults
    /\ source = [d \in SourceDirs |-> AbsentDir]
    /\ build = NoBuild
    /\ archives = <<>>
    /\ existing = {}
    /\ file = NoFile
    /\ items = NoItems
    /\ pre = Snapshot
    /\ ops = 0
    /\ env = 0

\* the first gda pull of the working directory
PullFirst ==
    /\ pc = "idle"
    /\ StartPull

\* gda pull without --force, right after a pull that ended without error
PullAgain ==
    /\ pc = "done"
    /\ cmd.name = "pull"
    /\ StartPull
    /\ ~cmd'.force

RepeatNext ==
    \/ PullFirst
    \/ PullAgain
    \/ PullCheckVersion
    \/ PullLoop
    \/ PullAssetBegin
    \/ PullAssetDownload
    \/ PullAssetHash
    \/ PullAssetExtract
    \/ PullAfter
    \/ PullSave

RepeatSpec == RepeatInit /\ [][RepeatNext]_vars

----------------------------------------------------------------------------
(* gda push into an empty release, then gda resolve                        *)

\* a release without assets
EmptyRelease == Release([z \in {} |-> ZJunk])

\* the store before the first push: the tags have no release, or have one
\* that holds nothing yet
EmptyRemotes == {[t \in Tags |-> NoRelease], [t \in Tags |-> EmptyRelease]}

PublishInit ==
    /\ manifest \in {[exists |-> TRUE, version |-> t, assets |-> PushAssets] : t \in Tags}
    /\ lockfile = NoLockfile
    /\ dest = [d \in DestDirs |-> AbsentDir]
    /\ cache = [exists |-> FALSE, files |-> [z \in {} |-> ZJunk]]
    /\ remote \in EmptyRemotes
    /\ pc = "idle"
    /\ cmd = NoCmd
    /\ ret = "done"
    /\ release = NoRelease
    /\ locked = <<>>
    /\ ridx = 1
    /\ lock = NoLock
    /\ idx = 1
    /\ updated = FALSE
    /\ cur = NoCur
    /\ result = <<>>
    /\ error = NoError
    /\ log = <<>>
    /\ results = NoResults
    /\ source \in [SourceDirs -> SourceChoices]
    /\ build = NoBuild
    /\ archives = <<>>
    /\ existing = {}
    /\ file = NoFile
    /\ items = NoItems
    /\ pre = Snapshot
    /\ ops = 0
    /\ env = 0

\* gda push without --dry-run, the first command of the publisher
PushFirst ==
    /\ pc = "idle"
    /\ StartPush
    /\ ~cmd'.dry_run

\* the upload loop of the push took an archive to client.upload_asset
ReachedUpload ==
    /\ cmd.name = "push"
    /\ pc \in {"done", "failed"}
    /\ \E i \in 1..Len(log) : log[i].ev \in {"upload", "upload_failed"}

\* gda resolve with the same manifest, after that push
ResolveAfterPush ==
    /\ ReachedUpload
    /\ StartResolve

\* the upload loop is never left at its end here: with nothing in the
\* release no archive is passed over, and the first upload raises
PublishNext ==
    \/ PushFirst
    \/ PushMakeBuildDir
    \/ PushBuild
    \/ PushPacked
    \/ PushGetRelease
    \/ PushCreateRelease
    \/ PushUpload
    \/ ResolveAfterPush
    \/ ResolveGetRelease
    \/ ResolveAsset
    \/ ResolveSave

PublishSpec == PublishInit /\ [][PublishNext]_vars

----------------------------------------------------------------------------
(* SyncService._prune_directory on its own                                 *)

\* directories that may be there without a file in them
EmptyDirChoices == {{}, {<<"d">>}, {<<"d">>, <<"d", "e">>}, {<<"e">>}}

\* a directory holding some of the files x, d/y, d/e/z and some directories
\* without files
DirTree(S, E) ==
    [exists |-> TRUE,
     files  |-> [p \in S |-> 1],
     dirs   |-> UNION {Ancestors(p) : p \in S} \cup E]

DirTrees == {AbsentDir} \cup {DirTree(S, E) : S \in SUBSET AllPaths, E \in EmptyDirChoices}

PruneInit ==
    /\ UnitStart
    /\ manifest = NoManifest
    /\ lockfile = NoLockfile
    /\ \E t \in DirTrees : dest = [d \in DestDirs |-> IF d = "out_a" THEN t ELSE AbsentDir]
    /\ source = [d \in SourceDirs |-> AbsentDir]
    /\ build = NoBuild
    /\ file = NoFile
    /\ items = NoItems
    /\ pre = Snapshot

\* _prune_directory(directory, keep_files)
PruneCall ==
    /\ Idle
    /\ ops < MaxOps
    /\ ops' = ops + 1
    /\ \E keep \in SUBSET AllPaths :
          /\ cmd' = [name |-> "_prune_directory", force |-> FALSE,
                     prune |-> TRUE, dir |-> "out_a", keep |-> keep]
          /\ dest' = [dest EXCEPT !["out_a"] = PruneDirectory(dest["out_a"], keep)]
    /\ pc' = "done"
    /\ pre' = Snapshot
    /\ UNCHANGED <<manifest, lockfile, cache, remote, ret, release, locked,
                   ridx, lock, idx, updated, cur, result, error, log, env,
                   results, pushState, unitState>>

PruneNext ==
    \/ PruneCall

PruneSpec == PruneInit /\ [][PruneNext]_vars

----------------------------------------------------------------------------
(* Two pull_asset calls at once, on the two assets of one working          *)
(* directory: pc, cur, result and error are functions of the call, and a   *)
(* step is one access to the filesystem                                    *)

\* the calls, named by their asset
Calls == {"a", "b"}

\* the locked asset of a call, and the dest_dir it is given
CallCur(p) ==
    [asset |-> LockedAsset(p, Url("v1", ZipName(p)),
                           ComputeHash(InitialRemote["v1"].assets[ZipName(p)]),
                           <<>>),
     dir   |-> "out_" \o p]

FileNotFoundError(what) == [kind |-> "FileNotFoundError", what |-> what]

DirectoryNotEmpty == [kind |-> "OSError", what |-> "directory not empty"]

InterleavedInit ==
    /\ manifest = [exists |-> TRUE, version |-> "v1", assets |-> InitialAssets]
    /\ lockfile = LockSave([version |-> "v1",
                            assets  |-> <<CallCur("a").asset, CallCur("b").asset>>])
    /\ dest \in [DestDirs -> {AbsentDir, WriteFile(EmptyDir, PZ, 9)}]
    /\ cache \in {[exists |-> e, files |-> [z \in {} |-> ZJunk]] : e \in BOOLEAN}
    /\ remote = InitialRemote
    /\ pc = [p \in Calls |-> "pa_start"]
    /\ cmd = [name |-> "pull_asset", force |-> FALSE, prune |-> FALSE]
    /\ ret = "done"
    /\ release = NoRelease
    /\ locked = <<>>
    /\ ridx = 1
    /\ lock = NoLock
    /\ idx = 1
    /\ updated = FALSE
    /\ cur = [p \in Calls |-> CallCur(p)]
    /\ result = [p \in Calls |-> <<>>]
    /\ error = [p \in Calls |-> NoError]
    /\ log = <<>>
    /\ results = NoResults
    /\ source = [d \in SourceDirs |-> AbsentDir]
    /\ build = NoBuild
    /\ archives = <<>>
    /\ existing = {}
    /\ file = NoFile
    /\ items = NoItems
    /\ pre = Snapshot
    /\ ops = 0
    /\ env = 0

\* what no step of a call changes
callFrame == <<manifest, lockfile, remote, cmd, ret, release, locked, ridx,
               lock, idx, updated, cur, pre, ops, env, results, pushState,
               unitState>>

CallZip(p) == ZipName(cur[p].asset.name)

\* call p moves on
Goto(p, to) == pc' = [pc EXCEPT ![p] = to]

\* call p raises outside the try block
Fails(p, e) ==
    /\ pc' = [pc EXCEPT ![p] = "failed"]
    /\ error' = [error EXCEPT ![p] = e]

\* pull_asset returns, or the exception raised in the try block leaves it
Leaves(p) == Goto(p, IF error[p] = NoError THEN "done" ELSE "failed")

\* sync.py 75-79: verify_asset, then self._cache_dir.mkdir
CallBegin(p) ==
    /\ pc[p] = "pa_start"
    /\ IF MustDownload(cmd.force, cur[p].asset, dest[cur[p].dir])
       THEN /\ cache' = MakeCacheDir(cache)
            /\ Goto(p, "dl_mkdir")
            /\ UNCHANGED result
       ELSE /\ result' = [result EXCEPT ![p] = cur[p].asset.files]
            /\ Goto(p, "done")
            /\ UNCHANGED cache
    /\ UNCHANGED <<callFrame, dest, error, log>>

\* github.py 104: dest.parent.mkdir(parents=True, exist_ok=True)
CallDownloadMkdir(p) ==
    /\ pc[p] = "dl_mkdir"
    /\ cache' = MakeCacheDir(cache)
    /\ Goto(p, "dl_open")
    /\ UNCHANGED <<callFrame, dest, result, error, log>>

\* github.py 110: open(dest, "wb"), which needs the directory
CallDownloadOpen(p) ==
    /\ pc[p] = "dl_open"
    /\ IF cache.exists
       THEN /\ cache' = StoreDownload(cache, CallZip(p), ZPartial)
            /\ Goto(p, "dl_write")
            /\ UNCHANGED error
       ELSE /\ Fails(p, FileNotFoundError(CallZip(p)))
            /\ UNCHANGED cache
    /\ UNCHANGED <<callFrame, dest, result, log>>

\* github.py 111-112: the chunks are written and the file is closed
CallDownloadWrite(p) ==
    /\ pc[p] = "dl_write"
    /\ cache' = IF CallZip(p) \in DOMAIN cache.files
                THEN StoreDownload(cache, CallZip(p), RemoteBytes(cur[p].asset.url))
                ELSE cache
    /\ log' = Append(log, Ev("download", p))
    /\ Goto(p, "pa_hash")
    /\ UNCHANGED <<callFrame, dest, result, error>>

\* sync.py 86-93: compute_hash reads zip_path; then the destination is cleared
CallHash(p) ==
    /\ pc[p] = "pa_hash"
    /\ IF CallZip(p) \notin DOMAIN cache.files
       THEN /\ Fails(p, FileNotFoundError(CallZip(p)))
            /\ UNCHANGED <<cache, dest, log>>
       ELSE LET actual == ComputeHash(cache.files[CallZip(p)]) IN
            IF HashDiffers(actual, cur[p].asset.sha256)
            THEN /\ cache' = MismatchCleanup(cache, CallZip(p))
                 /\ Fails(p, HashMismatchError(p, cur[p].asset.sha256, actual))
                 /\ UNCHANGED <<dest, log>>
            ELSE /\ dest' = [dest EXCEPT ![cur[p].dir] = CleanDestination(@)]
                 /\ log' = Append(log, Ev("hash_ok", p))
                 /\ Goto(p, "pa_extract")
                 /\ UNCHANGED <<cache, error>>
    /\ UNCHANGED <<callFrame, result>>

\* sync.py 95-96: extract_zip reads zip_path
CallExtract(p) ==
    /\ pc[p] = "pa_extract"
    /\ IF CallZip(p) \in DOMAIN cache.files /\ IsZip(cache.files[CallZip(p)])
       THEN /\ dest' = [dest EXCEPT ![cur[p].dir] =
                           ExtractZipDir(cache.files[CallZip(p)], @)]
            /\ result' = [result EXCEPT ![p] = ExtractZipNames(cache.files[CallZip(p)])]
            /\ log' = Append(log, Ev("extracted", p))
            /\ UNCHANGED error
       ELSE /\ error' = [error EXCEPT ![p] =
                            IF CallZip(p) \in DOMAIN cache.files
                            THEN BadZipFile ELSE FileNotFoundError(CallZip(p))]
            /\ UNCHANGED <<dest, result, log>>
    /\ Goto(p, "fin_unlink")
    /\ UNCHANGED <<callFrame, cache>>

\* sync.py 98-99: if zip_path.exists(): zip_path.unlink()
CallFinallyUnlink(p) ==
    /\ pc[p] = "fin_unlink"
    /\ cache' = IF CallZip(p) \in DOMAIN cache.files
                THEN UnlinkZip(cache, CallZip(p)) ELSE cache
    /\ Goto(p, "fin_exists")
    /\ UNCHANGED <<callFrame, dest, result, error, log>>

\* sync.py 100: self._cache_dir.exists()
CallFinallyExists(p) ==
    /\ pc[p] = "fin_exists"
    /\ IF cache.exists THEN Goto(p, "fin_iter") ELSE Leaves(p)
    /\ UNCHANGED <<callFrame, cache, dest, result, error, log>>

\* sync.py 100: not any(self._cache_dir.iterdir())
CallFinallyIter(p) ==
    /\ pc[p] = "fin_iter"
    /\ IF ~cache.exists
       THEN Fails(p, FileNotFoundError(".gda/cache"))
       ELSE /\ IF DOMAIN cache.files = {} THEN Goto(p, "fin_rmdir") ELSE Leaves(p)
            /\ UNCHANGED error
    /\ UNCHANGED <<callFrame, cache, dest, result, log>>

\* sync.py 101: self._cache_dir.rmdir()
CallFinallyRmdir(p) ==
    /\ pc[p] = "fin_rmdir"
    /\ IF ~cache.exists
       THEN /\ Fails(p, FileNotFoundError(".gda/cache"))
            /\ UNCHANGED cache
       ELSE IF DOMAIN cache.files # {}
       THEN /\ Fails(p, DirectoryNotEmpty)
            /\ UNCHANGED cache
       ELSE /\ cache' = [cache EXCEPT !.exists = FALSE]
            /\ Leaves(p)
            /\ UNCHANGED error
    /\ UNCHANGED <<callFrame, dest, result, log>>

InterleavedNext ==
    \/ \E p \in Calls : CallBegin(p)
    \/ \E p \in Calls : CallDownloadMkdir(p)
    \/ \E p \in Calls : CallDownloadOpen(p)
    \/ \E p \in Calls : CallDownloadWrite(p)
    \/ \E p \in Calls : CallHash(p)
    \/ \E p \in Calls : CallExtract(p)
    \/ \E p \in Calls : CallFinallyUnlink(p)
    \/ \E p \in Calls : CallFinallyExists(p)
    \/ \E p \in Calls : CallFinallyIter(p)
    \/ \E p \in Calls : CallFinallyRmdir(p)

InterleavedSpec == InterleavedInit /\ [][InterleavedNext]_vars

----------------------------------------------------------------------------
(* Properties                                                               *)

Last(s) == s[Len(s)]

InPullAsset == pc \in {"pa_start", "pa_download", "pa_hash", "pa_extract"}

\* the recorded list is non-empty and every listed path is there
ListedAllPresent(asset, d) ==
    /\ asset.files # <<>>
    /\ d.exists
    /\ \A p \in Range(asset.files) : p \in DOMAIN d.files \cup d.dirs

Logged(e, n) == \E i \in 1..Len(log) : log[i] = Ev(e, n)

\* the paths and the contents an archive holds
ArchivePaths(b) == {b.entries[i].name : i \in 1..Len(b.entries)}

ArchiveData(b, p) ==
    b.entries[CHOOSE i \in 1..Len(b.entries) : b.entries[i].name = p].data

\* the lock on disk when the running pull was started is of another version
PreStale == pre.lockfile.exists /\ pre.lockfile.version # manifest.version

\* resolve has just saved the lock
AfterResolveSave == log # <<>> /\ Last(log) = Ev("lock_written", "resolve")

ResolveFailed == pc = "failed" /\ log # <<>> /\ Last(log).ev = "resolve_failed"

\* C1: pull_asset with force=false on an asset whose recorded list is
\* non-empty and all present downloads nothing, changes nothing on disk and
\* returns the recorded list; the state it leaves makes the next call do the
\* same.
C1_IdempotentPullAsset ==
    (/\ cmd.name = "pull_asset"
     /\ ~cmd.force
     /\ ListedAllPresent(cur.asset, pre.dest[cur.dir]))
    => /\ pc \in {"pa_start", "done"}
       /\ \A i \in 1..Len(log) : log[i].ev \notin {"mkdir_cache", "download"}
       /\ dest = pre.dest
       /\ cache = pre.cache
       /\ lockfile = pre.lockfile
       /\ pc = "done" =>
             /\ result = cur.asset.files
             /\ ListedAllPresent(cur.asset, dest[cur.dir])

C1_Witness ==
    /\ cmd.name = "pull_asset"
    /\ ~cmd.force
    /\ pc = "done"
    /\ ListedAllPresent(cur.asset, pre.dest[cur.dir])
    /\ Len(result) = 2

\* C2: a download whose hash differs from the locked hash ends pull_asset
\* with HashMismatchError carrying the locked and the computed digest, the
\* destination is as the command found it and the download is not in the
\* cache; a call that got past the check had equal hashes.
C2_HashMismatch ==
    /\ (pc = "failed" /\ error.kind = "HashMismatchError")
       => /\ error.asset_name = cur.asset.name
          /\ error.expected = cur.asset.sha256
          /\ error.actual = ComputeHash(RemoteBytes(cur.asset.url))
          /\ error.actual # error.expected
          /\ dest[cur.dir] = pre.dest[cur.dir]
          /\ CurZip \notin DOMAIN cache.files
    /\ pc = "pa_extract"
       => ComputeHash(RemoteBytes(cur.asset.url)) = cur.asset.sha256

C2_Witness ==
    /\ pc = "failed"
    /\ error.kind = "HashMismatchError"
    /\ DOMAIN pre.dest[cur.dir].files # {}

PullEvents ==
    {"verify", "in_sync", "mkdir_cache", "download", "hash_ok",
     "hash_mismatch", "extracted", "extract_failed", "pruned"}

\* C3: in a pull that found a lock of another version, the resolve has
\* written the new lock before the first asset is verified or downloaded,
\* and every asset is verified and pulled from a lock of the manifest's
\* version.
C3_StaleLockResolved ==
    cmd.name = "pull" =>
        /\ \A j \in 1..Len(log) :
              log[j].ev \in PullEvents
              => /\ lock.version = manifest.version
                 /\ lockfile.version = manifest.version
                 /\ PreStale =>
                       \E i \in 1..(j - 1) : log[i] = Ev("lock_written", "resolve")
        /\ InPullAsset => cur.asset.url = Url(manifest.version, CurZip)

C3_Witness ==
    /\ cmd.name = "pull"
    /\ PreStale
    /\ pc = "done"
    /\ \E j \in 1..Len(log) : log[j].ev = "extracted"

\* C4: a pull that started without a lockfile resolves first; when it ends
\* successfully the lockfile exists and, for every manifest asset the
\* release holds, the destination holds exactly the archive's files with
\* their contents and the saved file list is the sorted list of paths.
C4_Bootstrap ==
    (cmd.name = "pull" /\ pc = "done" /\ ~pre.lockfile.exists)
    => /\ lockfile.exists
       /\ log[1] = Ev("resolve", "missing")
       /\ \A k \in 1..Len(manifest.assets) :
             LET n == manifest.assets[k].name
                 rel == remote[manifest.version]
                 d == dest[manifest.assets[k].destination]
             IN ZipName(n) \in DOMAIN rel.assets
                => LET b == rel.assets[ZipName(n)] IN
                   /\ IsZip(b)
                   /\ d.exists
                   /\ DOMAIN d.files = ArchivePaths(b)
                   /\ \A p \in ArchivePaths(b) : d.files[p] = ArchiveData(b, p)
                   /\ \E i \in 1..Len(lockfile.assets) :
                         /\ lockfile.assets[i].key = n
                         /\ lockfile.assets[i].files = SortPaths(ArchivePaths(b))

C4_Witness ==
    /\ cmd.name = "pull"
    /\ pc = "done"
    /\ ~pre.lockfile.exists
    /\ Len(lockfile.assets) = 2
    /\ DOMAIN dest["out_b"].files = {PX, PY}

\* C5: while resolve runs, and when it has failed at the release lookup or
\* at the hash of any asset, gda.lock is what it was when the command
\* started.
C5_ResolveWritesNothingOnFailure ==
    (pc \in {"rs_get_release", "rs_loop"} \/ ResolveFailed)
    => lockfile = pre.lockfile

C5_Witness ==
    /\ ResolveFailed
    /\ pre.lockfile.exists
    /\ Len(locked) = 1
    /\ Last(log).name = "b"

\* the manifest assets the release holds, in the manifest's order
HeldByRelease(m) ==
    LET Held(a) == ZipName(a.name) \in DOMAIN remote[m.version].assets
    IN SelectSeq(m.assets, Held)

\* C6: the lock resolve saves has the manifest's version and one entry for
\* each manifest asset n the release holds as n.zip, and no other, with
\* that asset's URL and the hash of the bytes the store serves there.
C6_ResolveLock ==
    AfterResolveSave =>
        LET want == HeldByRelease(manifest) IN
        /\ lockfile.exists
        /\ lockfile.version = manifest.version
        /\ Len(lockfile.assets) = Len(want)
        /\ \A i \in 1..Len(want) :
              /\ lockfile.assets[i].key = want[i].name
              /\ lockfile.assets[i].url =
                    Url(manifest.version, ZipName(want[i].name))
              /\ lockfile.assets[i].sha256 =
                    ComputeHash(RemoteBytes(lockfile.assets[i].url))

C6_Witness ==
    /\ AfterResolveSave
    /\ Len(manifest.assets) = 2
    /\ Len(lockfile.assets) = 1

\* C7: verify_asset returns true exactly when the recorded list is
\* non-empty, the destination exists and every listed path exists under it,
\* and leaves the disk as it was.
C7_VerifyAsset ==
    (cmd.name = "verify_asset" /\ pc = "done")
    => /\ result <=> ListedAllPresent(cur.asset, dest[cur.dir])
       /\ dest = pre.dest
       /\ lockfile = pre.lockfile
       /\ cache = pre.cache

C7_Witness ==
    /\ cmd.name = "verify_asset"
    /\ pc = "done"
    /\ result = TRUE
    /\ Len(cur.asset.files) = 2

\* the pull loop runs on a lock whose file lists are all empty
FreshLock ==
    \/ Logged("lock_written", "resolve")
    \/ /\ pre.lockfile.exists
       /\ ~PreStale
       /\ \A i \in 1..Len(pre.lockfile.assets) :
             pre.lockfile.assets[i].files = <<>>

\* C8: every entry resolve saves has an empty file list and does not verify
\* against any directory; in a pull on such a lock every asset the loop has
\* passed that has a destination was downloaded and hash-checked.
C8_FirstPullDownloads ==
    /\ AfterResolveSave =>
          \A i \in 1..Len(lockfile.assets) :
              /\ lockfile.assets[i].files = <<>>
              /\ \A d \in DestDirs :
                    ~VerifyAsset(LockLoad(lockfile).assets[i], dest[d])
    /\ (cmd.name = "pull" /\ FreshLock) =>
          \A i \in 1..Len(lock.assets) :
              (i < idx /\ DestinationsOf(manifest, lock.assets[i].name) # {})
              => /\ Logged("download", lock.assets[i].name)
                 /\ Logged("hash_ok", lock.assets[i].name)

C8_Witness ==
    /\ cmd.name = "pull"
    /\ pc = "done"
    /\ FreshLock
    /\ PX \in DOMAIN pre.dest["out_a"].files
    /\ Logged("hash_ok", "a")

\* C9: when pull_asset has unpacked, or failed to unpack, the download is
\* not in the cache and an empty cache directory is gone; a pull that
\* started without a cache directory and succeeded leaves none.
C9_CacheCleaned ==
    /\ (/\ cmd.name \in {"pull", "pull_asset"}
        /\ log # <<>>
        /\ Last(log).ev \in {"extracted", "extract_failed"})
       => /\ ZipName(Last(log).name) \notin DOMAIN cache.files
          /\ DOMAIN cache.files = {} => ~cache.exists
    /\ (cmd.name = "pull" /\ pc = "done" /\ ~pre.cache.exists)
       => ~cache.exists

C9_Witness ==
    /\ pc = "failed"
    /\ error.kind = "BadZipFile"
    /\ Last(log).ev = "extract_failed"
    /\ ~cache.exists

\* C10: when pull_asset fails after making the cache directory, whatever
\* the failure, no download of that asset is in the cache.
C10_FailureLeavesNoCacheFile ==
    (/\ pc = "failed"
     /\ cmd.name \in {"pull", "pull_asset"}
     /\ Logged("mkdir_cache", cur.asset.name))
    => CurZip \notin DOMAIN cache.files

\* the pull command has just pruned the destination of the asset in cur,
\* which it downloaded and extracted before
PrunedAfterPull ==
    /\ cmd.name = "pull"
    /\ cmd.prune
    /\ pc \in {"pl_loop", "done"}
    /\ log # <<>>
    /\ Logged("pruned", cur.asset.name)
    /\ Last(log) \in {Ev("pruned", cur.asset.name), Ev("lock_written", "pull")}
    /\ Logged("extracted", cur.asset.name)

\* C11: after the pull command has downloaded and extracted an asset with
\* prune enabled, the regular files under its destination are exactly the
\* files of the extracted list (every file is listed, what was there before
\* and is not listed is gone, no listed file was taken away), and no empty
\* directory is left under the destination.
C11_PruneAfterPull ==
    PrunedAfterPull =>
        LET d == dest[cur.dir] IN
        /\ d.exists
        /\ DOMAIN d.files = Range(result)
        /\ \A q \in d.dirs : ~IsEmptyDir(d, q)

\* the destination held a file outside the list before the run
C11_Witness ==
    /\ PrunedAfterPull
    /\ \E p \in DOMAIN pre.dest[cur.dir].files : p \notin Range(result)
    /\ dest[cur.dir].dirs # {}

\* the running command found the asset in sync: verify_asset passed and
\* nothing was downloaded
VerifiedInRun(n) ==
    \/ Logged("verify", n) /\ ~Logged("download", n)
    \/ Logged("in_sync", n)

\* C12: a pull run with prune enabled and force=false prunes the
\* destination of an asset that passes verify too: when the run is over,
\* no file outside the recorded list of such an asset is left under its
\* destination.
C12_PruneAfterVerifyHit ==
    (/\ cmd.name \in {"pull", "pull_all"}
     /\ cmd.prune
     /\ ~cmd.force
     /\ pc = "done")
    => \A i \in 1..Len(lock.assets) :
          LET asset == lock.assets[i]
              dirs  == DestinationsOf(manifest, asset.name)
          IN (dirs # {} /\ VerifiedInRun(asset.name))
             => \A d \in dirs : DOMAIN dest[d].files \subseteq Range(asset.files)

\* the running pull resolved before its loop
ResolvedInRun == Logged("lock_written", "resolve")

\* the file list gda.lock held for an asset when the pull loop started
RecordedAtLoopStart(n) ==
    IF ResolvedInRun THEN <<>>
    ELSE LET S == {i \in 1..Len(pre.lockfile.assets) :
                      pre.lockfile.assets[i].key = n}
         IN pre.lockfile.assets[CHOOSE i \in S : TRUE].files

InPullLoop == pc \in {"pl_loop", "pl_after"} \/ InPullAsset

LockWrittenByPull == Logged("lock_written", "pull")

\* the loop of the running pull has dealt with the asset
Processed(n) ==
    Logged("skipped", n) \/ Logged("verify", n) \/ Logged("extracted", n)

NoDestination(n) == \A i \in 1..Len(manifest.assets) : manifest.assets[i].name # n

\* C14: a locked asset with no destination in the manifest is skipped by
\* pull and by pull_all: nothing is verified, downloaded, extracted or
\* pruned for it, its lock entry stays as it was, the skip raises nothing
\* and the assets after it are still processed.  (A lock that a stale pull
\* resolves again is built from the manifest and has no such asset.)
C14_NoDestinationSkipped ==
    (cmd.name \in {"pull", "pull_all"} /\ ~Logged("resolve", "stale")) =>
        \A i \in 1..Len(lock.assets) :
            LET n == lock.assets[i].name IN
            NoDestination(n) =>
                /\ \A k \in 1..Len(log) :
                      log[k].name = n => log[k].ev = "skipped"
                /\ cur.asset.name # n
                /\ lockfile.exists
                /\ i <= Len(lockfile.assets)
                /\ lockfile.assets[i] = pre.lockfile.assets[i]
                /\ LockLoad(lockfile).assets[i] = lock.assets[i]
                /\ (log # <<>> /\ Last(log) = Ev("skipped", n)) => pc # "failed"
                /\ pc = "done" =>
                      /\ Logged("skipped", n)
                      /\ \A j \in 1..Len(lock.assets) :
                            \/ Processed(lock.assets[j].name)
                            \/ Logged("in_sync", lock.assets[j].name)

\* the first asset of the lock was skipped, the second one pulled
C14_Witness ==
    /\ cmd.name \in {"pull", "pull_all"}
    /\ pc = "done"
    /\ Len(lock.assets) = 2
    /\ NoDestination(lock.assets[1].name)
    /\ Logged("skipped", lock.assets[1].name)
    /\ Logged("extracted", lock.assets[2].name)
    /\ dest["out_a"] = pre.dest["out_a"]

\* pull_asset has just unpacked the archive of the asset in cur
JustExtracted ==
    /\ log # <<>>
    /\ Last(log) = Ev("extracted", cur.asset.name)
    /\ Logged("hash_ok", cur.asset.name)

\* C15: when the hash matches, pull_asset removes the destination before
\* unpacking: after a successful pull the regular files under the
\* destination are the entries of the artifact, with their contents, the
\* directories are the ones above these files, and nothing that was there
\* before survives.
C15_DestinationReplaced ==
    JustExtracted =>
        LET b == RemoteBytes(cur.asset.url)
            d == dest[cur.dir]
        IN /\ d.exists
           /\ DOMAIN d.files = ArchivePaths(b)
           /\ \A p \in DOMAIN d.files : d.files[p] = ArchiveData(b, p)
           /\ d.dirs = UNION {Ancestors(p) : p \in ArchivePaths(b)}
           /\ result = SortPaths(ArchivePaths(b))

\* the destination held a file the artifact does not have
C15_Witness ==
    /\ JustExtracted
    /\ \E p \in DOMAIN pre.dest[cur.dir].files :
          p \notin ArchivePaths(RemoteBytes(cur.asset.url))
    /\ \E p \in DOMAIN pre.dest[cur.dir].files :
          /\ p \in ArchivePaths(RemoteBytes(cur.asset.url))
          /\ pre.dest[cur.dir].files[p] # dest[cur.dir].files[p]

\* the running pull downloaded the artifact of a lock entry, found its hash
\* equal to the locked one and unpacked it
PulledInRun(e) ==
    /\ cmd.name = "pull"
    /\ Logged("download", e.key)
    /\ Logged("hash_ok", e.key)
    /\ Logged("extracted", e.key)
    /\ e.sha256 = ComputeHash(RemoteBytes(e.url))
    /\ e.files = ExtractZipNames(RemoteBytes(e.url))

\* C16: an entry of the lockfile on disk gets a non-empty file list only
\* from a pull that downloaded the artifact of that entry, found its hash
\* equal to the locked hash and extracted it; every other write keeps the
\* entry as it was, and the lock that resolve saves has empty lists only.
C16_FilesOnlyAfterPull ==
    [][/\ \A i \in 1..Len(lockfile'.assets) :
             LET e == lockfile'.assets[i] IN
             e.files # <<>> =>
                \/ e \in Range(lockfile.assets)
                \/ /\ PulledInRun(e)
                   /\ log' = Append(log, Ev("lock_written", "pull"))
       /\ log' = Append(log, Ev("lock_written", "resolve")) =>
             \A i \in 1..Len(lockfile'.assets) :
                 lockfile'.assets[i].files = <<>>]_vars

\* a pull has saved a lock with a file list, over a lock that had lists
\* before and was resolved again in the same run
C16_Witness ==
    /\ cmd.name = "pull"
    /\ pc = "done"
    /\ LockWrittenByPull
    /\ ResolvedInRun
    /\ \E i \in 1..Len(pre.lockfile.assets) : pre.lockfile.assets[i].files # <<>>
    /\ \E i \in 1..Len(lockfile.assets) : lockfile.assets[i].files # <<>>

----------------------------------------------------------------------------
(* gda push, under PushSpec                                                 *)

\* the upload loop of the running push has dealt with the archive
DealtWith(zip) ==
    \/ Logged("upload", zip)
    \/ Logged("upload_skipped", zip)
    \/ Logged("upload_failed", zip)

\* C17: push uploads no archive whose asset name is already among the
\* assets of the release unless the overwrite flag is set; with the flag it
\* uploads it, and an archive whose name is not in the release is always
\* uploaded.
C17_UploadUnlessPresent ==
    cmd.name = "push" =>
        \A k \in 1..Len(archives) :
            LET zip == archives[k].zip IN
            DealtWith(zip) =>
                (Logged("upload", zip) <=> (zip \notin existing \/ cmd.force))

\* C18: with --dry-run push packs every asset of the manifest whose source
\* directory exists and stops there: it asks the store for nothing, creates
\* no release, uploads nothing, and the store is as it was.
C18_DryRunUploadsNothing ==
    (cmd.name = "push" /\ cmd.dry_run) =>
        /\ remote = pre.remote
        /\ pc \notin {"pu_get_release", "pu_create", "pu_upload", "failed"}
        /\ \A k \in 1..Len(log) : log[k].ev \in {"packed", "source_missing", "return"}
        /\ pc = "done" =>
              \A i \in 1..Len(manifest.assets) :
                  LET asset == manifest.assets[i] IN
                  IF source[asset.source].exists
                  THEN /\ Logged("packed", asset.name)
                       /\ ZipName(asset.source) \in DOMAIN build.files
                       /\ build.files[ZipName(asset.source)]
                              = CreateZip(source[asset.source])
                  ELSE ~Logged("packed", asset.name)

\* a dry run has packed two archives for a version that has no release
C18_Witness ==
    /\ cmd.name = "push"
    /\ cmd.dry_run
    /\ pc = "done"
    /\ Len(archives) = 2
    /\ ~remote[manifest.version].exists

\* the position of the first event of a kind in the log, past the end if
\* there is none
FirstEv(e) ==
    LET S == {k \in 1..Len(log) : log[k].ev = e}
    IN IF S = {} THEN Len(log) + 1
       ELSE CHOOSE k \in S : \A j \in S : k <= j

\* C19: push creates the release if and only if get_release reports that
\* it does not exist, and before the first upload; a release that exists is
\* used and not created again; when get_release fails for another reason
\* (transport or API error) no release is created and the failure is
\* reported.
C19_ReleaseCreatedIffMissing ==
    cmd.name = "push" =>
        LET v == manifest.version IN
        /\ (Logged("create_release", v) \/ pc = "pu_create")
              => Logged("get_release_failed", "ReleaseNotFoundError")
        /\ Logged("create_release", v) => FirstEv("create_release") < FirstEv("upload")
        /\ Logged("get_release", v)
              => /\ ~Logged("create_release", v)
                 /\ pc # "pu_create"
                 /\ release = pre.remote[v]
        /\ (\/ Logged("get_release_failed", "GitHubAPIError")
            \/ Logged("get_release_failed", "TransportError"))
              => /\ pc = "failed"
                 /\ remote = pre.remote

\* C20: push passes over an asset whose source directory is missing without
\* failing, still packs and uploads every other asset whose source exists
\* (an archive the release already holds is left alone without the
\* overwrite flag), and the run ends successfully unless the store fails.
C20_MissingSourceSkipped ==
    (/\ cmd.name = "push"
     /\ ~cmd.dry_run
     /\ pc \in {"done", "failed"}
     /\ error.kind \notin {"GitHubAPIError", "TransportError"}
     /\ \E i \in 1..Len(manifest.assets) : ~source[manifest.assets[i].source].exists
     /\ \E i \in 1..Len(manifest.assets) : source[manifest.assets[i].source].exists)
    => /\ pc = "done"
       /\ \A i \in 1..Len(manifest.assets) :
             LET asset == manifest.assets[i]
                 zip   == ZipName(asset.source)
             IN IF source[asset.source].exists
                THEN /\ Logged("packed", asset.name)
                     /\ \/ Logged("upload", zip)
                        \/ zip \in existing /\ ~cmd.force
                ELSE /\ Logged("source_missing", asset.name)
                     /\ ~Logged("packed", asset.name)

----------------------------------------------------------------------------
(* Asset names, under TraversalSpec                                         *)

\* C21: an asset identifier with path-traversal characters is rejected
\* before pull writes anything for it: the cache directory is not made for
\* it, nothing is downloaded under a zip name built from it (a key with
\* ".." in it names a path outside .gda/cache) and nothing is extracted.
C21_TraversalRejected ==
    \A n \in TraversalNames :
        /\ ZipName(n) \notin DOMAIN cache.files
        /\ ~Logged("mkdir_cache", n)
        /\ ~Logged("download", n)
        /\ ~Logged("extracted", n)

\* what the text of the file has under the key k of its root
RawField(k) == Get(file.data, k, Null)

HasRoot == file.kind = "text" /\ file.data.t = "dict"

HasAssets == HasRoot /\ RawField("assets").t = "dict"

\* the entries of "assets" in the text of the file
RawAssets == IF HasAssets THEN RawField("assets").items ELSE <<>>

\* the text is an object with a version and entries that have a url and a
\* sha256, with or without a list of files
SoundLockText ==
    /\ HasRoot
    /\ Truthy(RawField("version"))
    /\ "assets" \in Keys(file.data) => HasAssets
    /\ \A i \in 1..Len(RawAssets) :
          LET spec == RawAssets[i].v
          IN /\ spec.t = "dict"
             /\ Truthy(Get(spec, "url", Null))
             /\ Truthy(Get(spec, "sha256", Null))
             /\ "files" \in Keys(spec) => Get(spec, "files", Null).t = "list"

LoadedLockfile == cmd.name = "Lockfile.load" /\ pc \in {"done", "failed"}

Raised(kind) == pc = "failed" /\ error.kind = kind /\ ~result.ok

\* C22: Lockfile.load fails with LockfileNotFoundError when the file is
\* absent, and with LockfileCorruptedError when the file is not valid JSON,
\* its root is not an object, "version" is absent, "assets" is not an object,
\* or an asset lacks "url" or "sha256"; no Lockfile is returned then.  An
\* asset without "files" is loaded, with an empty list of files.
C22_LockfileLoadErrors ==
    LoadedLockfile =>
        /\ file.kind = "absent" => Raised("LockfileNotFoundError")
        /\ file.kind = "garbage" => Raised("LockfileCorruptedError")
        /\ file.kind = "text" /\ ~HasRoot => Raised("LockfileCorruptedError")
        /\ HasRoot /\ "version" \notin Keys(file.data)
               => Raised("LockfileCorruptedError")
        /\ HasRoot /\ "assets" \in Keys(file.data) /\ ~HasAssets
               => Raised("LockfileCorruptedError")
        /\ (\E i \in 1..Len(RawAssets) :
                            LET spec == RawAssets[i].v
                            IN /\ spec.t = "dict"
                               /\ {"url", "sha256"} \ Keys(spec) # {})
               => Raised("LockfileCorruptedError")
        /\ SoundLockText => pc = "done"
        /\ pc = "done" =>
               /\ result.ok
               /\ \A i \in 1..Len(RawAssets) :
                     LET e == RawAssets[i]
                     IN "files" \notin Keys(e.v) =>
                            \E a \in Range(result.value.assets) :
                                a.name = e.k /\ a.files = <<>>

\* a lockfile was loaded that has an asset without "files"
C22_Witness ==
    /\ LoadedLockfile
    /\ pc = "done"
    /\ \E i \in 1..Len(RawAssets) :
          "files" \notin Keys(RawAssets[i].v)

LoadedManifest == cmd.name = "Manifest.load" /\ pc \in {"done", "failed"}

\* the call raised ManifestValidationError about one of the fields
Invalid(fields) ==
    /\ Raised("ManifestValidationError")
    /\ error.what \in fields

\* the text is a mapping with a repository, a version and entries that
\* have a destination, with or without a source and a list of excludes
SoundManifestText ==
    /\ HasRoot
    /\ Truthy(RawField("repository"))
    /\ Truthy(RawField("version"))
    /\ "assets" \in Keys(file.data) => HasAssets
    /\ \A i \in 1..Len(RawAssets) :
          LET spec == RawAssets[i].v
          IN /\ spec.t = "dict"
             /\ Truthy(Get(spec, "destination", Null))
             /\ "excludes" \in Keys(spec)
                    => Get(spec, "excludes", Null).t = "list"

\* C23: Manifest.load fails with ManifestNotFoundError when the file is
\* absent and with ManifestValidationError, naming the field, when the root
\* is not a mapping, "repository" or "version" is absent or empty, "assets"
\* is not a mapping, an asset is not a mapping or lacks "destination"; an
\* asset without "source" is loaded with its name as the source.
C23_ManifestLoadErrors ==
    LoadedManifest =>
        /\ file.kind = "absent" => Raised("ManifestNotFoundError")
        /\ file.kind = "garbage" => Raised("ManifestValidationError")
        /\ file.kind = "text" /\ ~HasRoot => Invalid({"root"})
        /\ HasRoot /\ ~Truthy(RawField("repository")) => Invalid({"repository"})
        /\ HasRoot /\ Truthy(RawField("repository"))
                   /\ ~Truthy(RawField("version")) => Invalid({"version"})
        /\ HasRoot /\ Truthy(RawField("repository"))
                   /\ Truthy(RawField("version"))
                   /\ "assets" \in Keys(file.data) /\ ~HasAssets
               => Invalid({"assets"})
        /\ (\E i \in 1..Len(RawAssets) :
               LET spec == RawAssets[i].v
               IN spec.t # "dict" \/ "destination" \notin Keys(spec))
               => Raised("ManifestValidationError")
        /\ (/\ HasRoot
            /\ Truthy(RawField("repository"))
            /\ Truthy(RawField("version"))
            /\ Len(RawAssets) > 0
            /\ (RawAssets[1].v.t # "dict"
                \/ "destination" \notin Keys(RawAssets[1].v)))
               => Invalid({"asset", "destination"})
        /\ SoundManifestText => pc = "done"
        /\ pc = "done" =>
               /\ result.ok
               /\ \A i \in 1..Len(RawAssets) :
                     LET e == RawAssets[i]
                     IN "source" \notin Keys(e.v) =>
                            \E a \in Range(result.value.assets) :
                                a.name = e.k /\ a.source = e.k

\* a manifest was loaded that has an asset without "source"
C23_Witness ==
    /\ LoadedManifest
    /\ pc = "done"
    /\ \E i \in 1..Len(RawAssets) : "source" \notin Keys(RawAssets[i].v)

\* Manifest == Manifest of Python: the same fields, the same asset under
\* every name
SameManifest(m, n) ==
    /\ m.repository = n.repository
    /\ m.version = n.version
    /\ Len(m.assets) = Len(n.assets)
    /\ Range(m.assets) = Range(n.assets)

\* C24: a Lockfile that is saved and loaded again is the Lockfile that was
\* saved, with its assets in the same order; a Manifest that is saved and
\* loaded again is equal to the Manifest that was saved, also when an asset
\* has no excludes.
C24_SaveLoadRoundTrip ==
    /\ cmd.name = "Lockfile.save" => LockfileLoad(file) = Ok(cmd.arg)
    /\ cmd.name = "Manifest.save" =>
           /\ ManifestLoad(file).ok
           /\ SameManifest(ManifestLoad(file).value, cmd.arg)

\* a lockfile of two assets, and a manifest with an asset without excludes
\* and a source of its own, was saved
C24_Witness ==
    \/ cmd.name = "Lockfile.save" /\ Len(cmd.arg.assets) = 2
                                  /\ cmd.arg.assets[1].name = "b"
    \/ cmd.name = "Manifest.save"
           /\ \E a \in Range(cmd.arg.assets) :
                 a.excludes = <<>> /\ a.source # a.name

\* C25: two runs of create_zip over trees with the same relative paths and
\* contents and the same excludes write the same bytes and return the same
\* hash, whatever the order the files were listed in and whatever the times
\* of their last change.
C25_CreateZipDeterministic ==
    \A i, j \in 1..Len(archives) :
        /\ source[archives[i].dir].files = source[archives[j].dir].files
        /\ archives[i].excludes = archives[j].excludes
        => /\ archives[i].bytes = archives[j].bytes
           /\ archives[i].hash = archives[j].hash

\* the same tree was packed twice with the same excludes, the second time
\* from a listing that is not in sorted order
C25_Witness ==
    /\ Len(archives) = 2
    /\ archives[1].excludes = archives[2].excludes
    /\ cmd.name = "create_zip"
    /\ Len(cmd.listing) >= 2
    /\ cmd.listing # Sorted(cmd.listing)
    /\ Len(archives[2].bytes.entries) >= 2

\* the archive that the last create_zip wrote
Packed == build.files[ZipName(cmd.dir)]

\* the path matches one of the patterns, or its basename matches what
\* follows "**/" in one of them
Excluded(p, excludes) ==
    \E i \in 1..Len(excludes) :
        \/ Fnmatch(Chars(p), excludes[i])
        \/ /\ StartsWithStars(excludes[i])
           /\ Fnmatch(Basename(p), SubSeq(excludes[i], 4, Len(excludes[i])))

\* C27: a file whose relative path matches an exclude glob, or whose
\* basename matches the rest of a pattern that starts with "**/", is not in
\* the archive create_zip writes nor in its listing; every other file is.
C27_ExcludesHonoured ==
    cmd.name = "create_zip" =>
        \A p \in DOMAIN source[cmd.dir].files :
            /\ p \in ArchivePaths(Packed) <=> ~Excluded(p, cmd.excludes)
            /\ p \in Range(ListZipContents(Packed)) <=> ~Excluded(p, cmd.excludes)

\* "x" at the root was left out for "**/x" while another file was packed
C27_Witness ==
    /\ cmd.name = "create_zip"
    /\ cmd.excludes = <<<<"*", "*", "/", "x">>>>
    /\ PX \in DOMAIN source[cmd.dir].files
    /\ PX \notin ArchivePaths(Packed)
    /\ PY \in ArchivePaths(Packed)

\* the directory that the last extract_zip wrote to
Unpacked == dest[cmd.dest]

\* the archive was made without excludes from the tree of the model
PackedWhole(zip) ==
    \E i \in 1..Len(archives) :
        /\ ZipName(archives[i].dir) = zip
        /\ archives[i].bytes = build.files[zip]
        /\ archives[i].excludes = <<>>

\* C26: the archive create_zip makes of a directory without excludes,
\* extracted into an empty destination, yields the files of the directory
\* at the same relative paths with the same contents, and extract_zip returns
\* these paths sorted, as list_zip_contents does for the archive.
C26_ExtractInvertsCreate ==
    /\ cmd.name = "extract_zip"
    /\ PackedWhole(cmd.zip)
    /\ ~pre.dest[cmd.dest].exists
    => /\ Unpacked.files = source["a"].files
       /\ result.value = SortPaths(DOMAIN source["a"].files)
       /\ result.value = ListZipContents(build.files[cmd.zip])

RECURSIVE SortIds(_)
SortIds(S) ==
    IF S = {} THEN <<>>
    ELSE LET m == CHOOSE i \in S : \A j \in S \ {i} : StrLess(i, j)
         IN <<m>> \o SortIds(S \ {m})

\* the items added and not deleted since, sorted by id
StoredItems ==
    LET ids == SortIds(DOMAIN results)
    IN [i \in 1..Len(ids) |-> Item(ids[i], results[ids[i]])]

Called(n) == cmd.name = n /\ pc \in {"done", "failed"} /\ ValidItemId(cmd.id)

\* C29: after any calls of add and delete, exists(id) is true exactly when
\* id was added and not deleted since; add of an id that exists raises
\* ItemExistsError and leaves the content as it was; delete of an id that
\* does not exist raises ItemNotFoundError and changes nothing; list returns
\* the stored items sorted by id.
C29_ItemStorageTracksCalls ==
    /\ Called("exists") => result.value = (cmd.id \in DOMAIN results)
    /\ Called("add") /\ ItemFile(cmd.id) \in DOMAIN cmd.before =>
           /\ Raised("ItemExistsError")
           /\ items = cmd.before
    /\ Called("add") /\ ItemFile(cmd.id) \notin DOMAIN cmd.before =>
           /\ pc = "done"
           /\ cmd.id \in DOMAIN results
    /\ Called("delete") /\ ItemFile(cmd.id) \notin DOMAIN cmd.before =>
           /\ Raised("ItemNotFoundError")
           /\ items = cmd.before
    /\ Called("delete") /\ ItemFile(cmd.id) \in DOMAIN cmd.before =>
           /\ pc = "done"
           /\ cmd.id \notin DOMAIN results
    /\ Called("list") => result.value = StoredItems

\* C30: add, delete, exists and get raise ValueError for an id that has "/"
\* or "\" in it and leave the directory and the stored items as they were.
C30_SeparatorsRejected ==
    /\ cmd.name \in {"add", "delete", "exists", "get"}
    /\ \E k \in 1..Len(cmd.id) : cmd.id[k] \in {"/", "\\"}
    => /\ Raised("ValueError")
       /\ items = cmd.before
       /\ \A n \in DOMAIN items : \A k \in 1..Len(n) : n[k] \notin {"/", "\\"}

\* add was called with "x\y" on a directory that holds an item
C30_Witness ==
    /\ cmd.name = "add"
    /\ cmd.id = IdBackslash
    /\ pc = "failed"
    /\ items # NoItems

\* C31: in a pull_asset call the destination is touched only after the
\* artifact was downloaded and its hash found equal to the locked one; a call
\* that fails at the download or at the hash check leaves it as it was.
C31_VerifyBeforeReplace ==
    cmd.name = "pull_asset" =>
        /\ dest # pre.dest =>
              /\ Logged("download", cur.asset.name)
              /\ pc \in {"pa_extract", "done", "failed"}
              /\ ComputeHash(RemoteBytes(cur.asset.url)) = cur.asset.sha256
        /\ (pc = "failed" /\ error.kind \in {"GitHubAPIError", "TransportError",
                                             "HashMismatchError"}) =>
              dest = pre.dest

\* a call on a present destination got past the hash check and cleared it
C31_Witness ==
    /\ cmd.name = "pull_asset"
    /\ pc = "pa_extract"
    /\ pre.dest[cur.dir].exists
    /\ dest[cur.dir] # pre.dest[cur.dir]
    /\ Logged("hash_ok", cur.asset.name)


\* C32: a pull without --force that follows a pull which ended without error,
\* with nothing changed in between, downloads no asset and leaves the
\* destinations and the lockfile as they were.
C32_SecondPullIdle ==
    (cmd.name = "pull" /\ ops >= 2) =>
        /\ \A i \in 1..Len(log) : log[i].ev # "download"
        /\ pc \in {"done", "failed"} => (dest = pre.dest /\ lockfile = pre.lockfile)

\* the manifest gives directory d to asset n
DestinationIs(n, d) ==
    \E i \in 1..Len(manifest.assets) :
        manifest.assets[i].name = n /\ manifest.assets[i].destination = d

\* C33: with destinations that do not overlap, pulling and pruning an asset
\* changes nothing under the destination of another asset: a destination
\* that differs from what it was when the call or the run began belongs to
\* an asset that got past its hash check or was pruned, and a single
\* pull_asset call leaves the lockfile and every other destination alone.
C33_OtherDestinationsUntouched ==
    /\ cmd.name \in {"pull_asset", "pull", "pull_all"} =>
          \A d \in DestDirs :
              dest[d] # pre.dest[d] =>
                  \E i \in 1..Len(lock.assets) \cup {0} :
                      LET n == IF i = 0 THEN cur.asset.name ELSE lock.assets[i].name
                      IN /\ DestinationIs(n, d)
                         /\ Logged("hash_ok", n) \/ Logged("pruned", n)
    /\ cmd.name = "pull_asset" =>
          /\ lockfile = pre.lockfile
          /\ \A d \in DestDirs \ {cur.dir} : dest[d] = pre.dest[d]

\* a pull replaced and pruned one destination while the other, which held
\* files, stayed as it was
C33_Witness ==
    /\ cmd.name = "pull"
    /\ pc = "done"
    /\ \E d \in DestDirs, o \in DestDirs :
          /\ d # o
          /\ dest[d] # pre.dest[d]
          /\ Logged("pruned", cur.asset.name)
          /\ DestinationIs(cur.asset.name, d)
          /\ pre.dest[o].files # NoFiles
          /\ dest[o] = pre.dest[o]

\* C34: whenever a pull run ends, with or without an error, the lockfile on
\* disk agrees with the disk: every asset whose destination was extracted
\* anew in the run has, in the persisted lock, the list of the files
\* extracted.
C34_LockAgreesWithDisk ==
    (cmd.name = "pull" /\ pc \in {"done", "failed"}) =>
        \A i \in 1..Len(lockfile.assets) :
            Logged("extracted", lockfile.assets[i].key) =>
                lockfile.assets[i].files =
                    ExtractZipNames(RemoteBytes(lockfile.assets[i].url))

\* an entry of the lock on disk when the command began
PreEntries == {pre.lockfile.assets[i] : i \in 1..Len(pre.lockfile.assets)}

\* C35: resolve replaces the lock wholesale: the lock it saves holds the
\* entries built in this resolve, in their order, each with an empty file
\* list, and nothing else; no entry and no file list of the lock it found
\* survives, also for an asset whose URL and hash are what they were.
C35_ResolveReplacesLock ==
    AfterResolveSave =>
        /\ lockfile.version = manifest.version
        /\ Len(lockfile.assets) = Len(locked)
        /\ \A i \in 1..Len(locked) :
              lockfile.assets[i] =
                  [key |-> locked[i].name, url |-> locked[i].url,
                   sha256 |-> locked[i].sha256, files |-> <<>>]
        /\ \A e \in PreEntries :
              (e.files # <<>> \/ NoDestination(e.key)) => e \notin Range(lockfile.assets)

\* resolve ran over a lock that held a file list for an asset whose URL and
\* hash it found unchanged, and an entry of an asset the manifest dropped
C35_Witness ==
    /\ AfterResolveSave
    /\ cmd.name = "resolve"
    /\ \E e \in PreEntries :
          /\ e.files # <<>>
          /\ [e EXCEPT !.files = <<>>] \in Range(lockfile.assets)
    /\ \E e \in PreEntries : NoDestination(e.key)

\* the manifest assets the build loop of push packs, in the manifest's order
PackedAssets ==
    LET HasSource(a) == source[a.source].exists
    IN SelectSeq(manifest.assets, HasSource)

\* the hash push computed for the archive of a packed asset
PushedHash(a) == ComputeHash(build.files[ZipName(a.source)])

\* C36: an asset that push took to the upload into an empty release is
\* locked by the resolve that follows, under its own name and with the hash
\* push computed for its archive, also when its source directory is not
\* named like the asset.
C36_PushThenResolveLocks ==
    (cmd.name = "resolve" /\ pc = "done") =>
        \E i \in 1..Len(lockfile.assets) :
            /\ lockfile.assets[i].key = PackedAssets[1].name
            /\ lockfile.assets[i].sha256 = PushedHash(PackedAssets[1])

\* C37: _prune_directory deletes a regular file exactly when its relative
\* path is not in the keep set, leaves the kept files with their contents
\* and the directory itself, and on return no empty directory is left
\* beneath it: the directories that stay are the ones above a kept file,
\* so a directory that got empty only by the removal of its empty
\* subdirectories is gone too.
C37_PruneDirectory ==
    cmd.name = "_prune_directory" =>
        LET b == pre.dest[cmd.dir]
            a == dest[cmd.dir]
        IN /\ a.exists = b.exists
           /\ DOMAIN a.files = {p \in DOMAIN b.files : p \in cmd.keep}
           /\ \A p \in DOMAIN a.files : a.files[p] = b.files[p]
           /\ \A q \in a.dirs : ~IsEmptyDir(a, q)
           /\ a.dirs = {q \in b.dirs : \E p \in DOMAIN a.files : q \in Ancestors(p)}

\* d/e/z was deleted, d/e and then d went with it, and a kept file stayed
C37_Witness ==
    /\ cmd.name = "_prune_directory"
    /\ PZ \in DOMAIN pre.dest[cmd.dir].files
    /\ PZ \notin cmd.keep
    /\ <<"d">> \in pre.dest[cmd.dir].dirs
    /\ <<"d">> \notin dest[cmd.dir].dirs
    /\ PX \in DOMAIN dest[cmd.dir].files

\* the asset was downloaded, hash-checked and unpacked in the running call
Refetched(n) ==
    /\ Logged("download", n)
    /\ Logged("hash_ok", n)
    /\ Logged("extracted", n)

\* C38: with force=true nothing is taken to be up to date: no verify is run
\* and no asset is returned as in sync, a pull_asset call that returns has
\* downloaded, hash-checked and unpacked its asset, and when the pull
\* command ends every locked asset with a destination has been, also the
\* ones whose files were all in place.
C38_ForceRefetches ==
    (cmd.force /\ cmd.name \in {"pull", "pull_asset"}) =>
        /\ \A i \in 1..Len(log) : log[i].ev \notin {"in_sync", "verify"}
        /\ (cmd.name = "pull_asset" /\ pc = "done") => Refetched(cur.asset.name)
        /\ (cmd.name = "pull" /\ pc = "done") =>
              \A i \in 1..Len(lock.assets) :
                  NoDestination(lock.assets[i].name) \/ Refetched(lock.assets[i].name)

\* a forced pull has ended on a lock with an asset whose recorded files
\* were all present when it began
C38_Witness ==
    /\ cmd.force
    /\ cmd.name = "pull"
    /\ pc = "done"
    /\ \E i \in 1..Len(pre.lockfile.assets) :
          LET e == pre.lockfile.assets[i] IN
          /\ e.files # <<>>
          /\ \E d \in DestDirs :
                /\ DestinationIs(e.key, d)
                /\ \A j \in 1..Len(e.files) : e.files[j] \in DOMAIN pre.dest[d].files
          /\ Refetched(e.key)

\* C39: pull_all and the loop of the pull command leave the same
\* filesystem and download the same assets.  The loop of the command, run
\* to its end, downloads an asset exactly when it is forced or the asset
\* does not verify, and leaves the destination of an asset that verifies
\* exactly as it found it; the same is to hold of pull_all.
C39_PullAllLikePullLoop ==
    (cmd.name \in {"pull", "pull_all"} /\ pc = "done") =>
        \A i \in 1..Len(lock.assets) :
            LET n == lock.assets[i].name IN
            \A d \in DestDirs :
                DestinationIs(n, d) =>
                    IF VerifiedInRun(n)
                    THEN /\ ~cmd.force
                         /\ ~Logged("download", n)
                         /\ dest[d] = pre.dest[d]
                    ELSE Refetched(n)

\* C40: two pull_asset calls on different assets, interleaved, use a cache
\* file each, and none of them fails, hashes bytes that are not its own
\* download or finds its download gone because of what the other call does
\* to the cache directory they share.
C40_InterleavedCallsSafe ==
    /\ CallZip("a") # CallZip("b")
    /\ \A p \in Calls :
          /\ pc[p] # "failed"
          /\ error[p] = NoError
          /\ pc[p] \in {"pa_hash", "pa_extract"} =>
                /\ CallZip(p) \in DOMAIN cache.files
                /\ cache.files[CallZip(p)] = RemoteBytes(cur[p].asset.url)

=============================================================================
